---- MODULE Spec2Model ----
(***************************************************************************)
(* Device sessions of the three sensor families (NoraxonSensor,            *)
(* QsenseSensor, YostSensor) and the connection procedure                  *)
(* (getDeviceAndChars, getUartDeviceAndChars).                             *)
(*                                                                         *)
(* JavaScript runs one task at a time.  Every action below is one task of  *)
(* the event loop: the synchronous code of a call or of an event listener, *)
(* followed by the microtasks it queued (promise reactions: .then,         *)
(* .finally and the continuations of await).                               *)
(***************************************************************************)
EXTENDS Integers, Sequences, FiniteSets, TLC

\* ------------------------------------------------------------------ bounds
MaxCalls == 2      \* calls a caller makes on one session
MaxSink == 1       \* notifications seen to reach the sink
MaxBuffer == 4     \* characters the reassembler is seen to hold back
MaxAttemptsArg == 3  \* largest maxAttempts argument tried besides the defaults
MaxDisposeCalls == 2  \* calls of dispose() on one session
MaxNotifications == 4  \* notifications of a run that compares arrival and delivery
MaxFrames == 2        \* frames declared by a family-1 value
MaxLineUnits == 2  \* characters of the short lines sent in pieces

Vendors == {"Noraxon", "Qsense", "Yost"}
UserPids == 1..MaxCalls
InitPid == 0       \* the call of init() made by create()
Pids == {InitPid} \cup UserPids
None == InitPid - 1     \* undefined (an empty slot)
Undefined == InitPid - 1

VARIABLES
  \* ---- session (NoraxonSensor / QsenseSensor / YostSensor)
  vendor,                 \* which class the session is
  link,                   \* device.gatt: "up", "lost" (transport), "released" (disconnect())
  _connected,             \* this._connected
  _streaming,             \* this._streaming
  command,                \* this.command: the call whose promise the slot holds, or None
  startStreamingPromise,  \* this.startStreamingPromise: the call whose promise it holds
  listeners,              \* event listeners registered on device and characteristics
  notifying,              \* txChar.startNotifications() has completed
  buffer,                 \* YostSensor.buffer (<<>> is undefined)
  serial, version,        \* identity fields
  proc,                   \* the async calls: init (0) and the caller's calls
  sink,                   \* what onReceivePacket has been invoked with
  disposed,               \* dispose() has been called
  disposeCalls,           \* how many times
  handlerAfterDispose,    \* a session handler ran at or after dispose()
  wroteOverPending,       \* a command was written while the slot held an unsettled promise
  \* ---- connection procedure (getDeviceAndChars / getUartDeviceAndChars)
  conn,
  \* ---- the input and the output of the run at hand (a record per specification)
  rx

svars == <<vendor, link, _connected, _streaming, command, startStreamingPromise,
           listeners, notifying, buffer, serial, version, proc, sink, disposed,
           disposeCalls,
           handlerAfterDispose, wroteOverPending>>
vars == <<svars, conn, rx>>

\* ------------------------------------------------------- the async calls
\* The awaits of each async function, in order.
\*   notif      await char.startNotifications()
\*   write      await rxChar.writeValue...(bytes)
\*   stopwrite  the write of stopStreaming, followed by _streaming = false
\*   cmd        getValue / setValue / sendCommand: reject the slot, write, await the slot
\*   pin        QsenseSensor.init's pin exchange: write, await the slot (no reject)
\*   stream     await the startStreamingPromise
Prog(v, kind) ==
  CASE kind = "init" /\ v = "Noraxon" -> <<"notif", "notif">>
    [] kind = "init" /\ v = "Qsense" -> <<"notif", "pin", "cmd", "cmd">>
    [] kind = "init" /\ v = "Yost" -> <<"notif", "stopwrite", "cmd", "cmd">>
    [] kind \in {"getValue", "setValue"} -> <<"cmd">>
    [] kind = "startStreaming" /\ v = "Noraxon" -> <<"write", "stream">>
    [] kind = "startStreaming" /\ v = "Qsense" -> <<"write", "write", "stream">>
    [] kind = "startStreaming" /\ v = "Yost" -> <<"cmd", "cmd", "write", "stream">>
    [] kind = "stopStreaming" -> <<"stopwrite">>
    [] OTHER -> <<>>

\* The operations a caller can invoke on a session.
UserKinds(v) ==
  IF v = "Noraxon" THEN {"startStreaming", "stopStreaming"}
  ELSE {"getValue", "setValue", "startStreaming", "stopStreaming"}

\* The property (Yost) or control-memory field (Qsense) a command asks for.
Args(v) ==
  CASE v = "Qsense" -> {"whoAmI", "version"}
    [] v = "Yost" -> {"serial_number", "version_firmware"}
    [] OTHER -> {""}

\* The property of the command at step ip of a call.
CmdProperty(v, kind, ip, arg) ==
  CASE kind = "init" /\ v = "Qsense" /\ ip = 3 -> "whoAmI"
    [] kind = "init" /\ v = "Qsense" /\ ip = 4 -> "version"
    [] kind = "init" /\ v = "Yost" /\ ip = 3 -> "serial_number"
    [] kind = "init" /\ v = "Yost" /\ ip = 4 -> "version_firmware"
    [] kind \in {"getValue", "setValue"} -> arg
    [] OTHER -> ""

IdleProc ==
  [kind |-> "none", ip |-> 0, pc |-> "idle", arg |-> "", res |-> "", val |-> {},
   mark |-> 0]

\* ------------------------------------------------------------- constants
frameSize == 14                \* NoraxonInterface.ts parseData
CONTROL_MEMORY_SIZE == 64
STREAM_MEMORY_ADDRESS == 256
STREAM_MEMORY_SIZE == 237
MemoryAddress ==
  [whoAmI |-> 0, id |-> 4, macAddress |-> 12, version |-> 20, battery |-> 24,
   motionLevel |-> 25, offsetCompensated |-> 26, magneticFieldMapped |-> 27,
   magneticFieldProgress |-> 28, connectionInterval |-> 29, syncStatus |-> 30,
   ticks100Hz |-> 31, pin |-> 32, time |-> 36, annotation |-> 40,
   deviceState |-> 42, uiAnimation |-> 44, deviceName |-> 48, dataMode |-> 60,
   timesync |-> 61, AlgorithmSelection |-> 63]
\* The bytes parseControlMemory reads for each field it reports.
FieldSize ==
  [whoAmI |-> 4, id |-> 8, macAddress |-> 6, version |-> 4, battery |-> 1,
   motionLevel |-> 1, offsetCompensated |-> 1, magneticFieldMapped |-> 1,
   magneticFieldProgress |-> 1, connectionInterval |-> 1, syncStatus |-> 1,
   ticks100Hz |-> 4, pin |-> 4, time |-> 4, annotation |-> 2,
   deviceState |-> 2, deviceName |-> 12, dataMode |-> 1, timesync |-> 1,
   AlgorithmSelection |-> 1]
\* How parseControlMemory turns the bytes of a field into the reported value.
FieldKind ==
  [whoAmI |-> "uint", id |-> "uint", macAddress |-> "mac", version |-> "uint",
   battery |-> "byte", motionLevel |-> "byte", offsetCompensated |-> "byte",
   magneticFieldMapped |-> "byte", magneticFieldProgress |-> "byte",
   connectionInterval |-> "byte", syncStatus |-> "byte", ticks100Hz |-> "uint",
   pin |-> "uint", time |-> "uint", annotation |-> "uint",
   deviceState |-> "uint", deviceName |-> "text", dataMode |-> "byte",
   timesync |-> "timesync", AlgorithmSelection |-> "algorithm"]
DataModes == 0..4              \* Mixed, Raw, Quat, Optimized, QuatMag

\* ------------------------------------------------------ text (YostSensor)
CR == "\r"
LF == "\n"
CRLF == <<CR, LF>>
Digits == {"0", "1", "2", "3", "4", "5", "6", "7", "8", "9"}
NumChars == Digits \cup {"-", "."}

\* String.prototype.split(sep) for a two-character separator.
RECURSIVE SplitCRLF(_, _)
SplitCRLF(s, cur) ==
  IF s = <<>> THEN <<cur>>
  ELSE IF Len(s) >= 2 /\ s[1] = CR /\ s[2] = LF
       THEN <<cur>> \o SplitCRLF(SubSeq(s, 3, Len(s)), <<>>)
       ELSE SplitCRLF(Tail(s), Append(cur, Head(s)))

\* String.prototype.split(c) for a one-character separator.
RECURSIVE SplitChar(_, _, _)
SplitChar(s, c, cur) ==
  IF s = <<>> THEN <<cur>>
  ELSE IF Head(s) = c
       THEN <<cur>> \o SplitChar(Tail(s), c, <<>>)
       ELSE SplitChar(Tail(s), c, Append(cur, Head(s)))

AllIn(s, set) == \A i \in DOMAIN s : s[i] \in set
Word(s, set) == s # <<>> /\ AllIn(s, set)      \* [set]+

\* <n> comma-separated [-0-9.]+ groups
NumList(s, n) ==
  LET parts == SplitChar(s, ",", <<>>)
  IN Len(parts) = n /\ \A i \in DOMAIN parts : Word(parts[i], NumChars)

\* PACKET_PATTERN
MatchesPacket(data) ==
  LET f == SplitChar(data, ";", <<>>)
  IN /\ Len(f) = 5
     /\ Word(f[1], Digits)
     /\ NumList(f[2], 4)
     /\ \A i \in 3..5 : NumList(f[i], 3)

\* RESPONSE_PATTERN
MatchesResponse(data) ==
  LET f == SplitChar(data, ",", <<>>)
  IN Len(f) = 2 /\ Word(f[1], Digits) /\ Word(f[2], Digits)

DigitVal(c) ==
  CASE c = "0" -> 0 [] c = "1" -> 1 [] c = "2" -> 2 [] c = "3" -> 3 [] c = "4" -> 4
    [] c = "5" -> 5 [] c = "6" -> 6 [] c = "7" -> 7 [] c = "8" -> 8 [] c = "9" -> 9

\* parseInt of a string of decimal digits
RECURSIVE ParseInt(_, _)
ParseInt(s, acc) ==
  IF s = <<>> THEN acc ELSE ParseInt(Tail(s), 10 * acc + DigitVal(Head(s)))

\* The keys of Object.fromEntries(data.split(";").map(kv => kv.split("=")))
BodyKeys(data) ==
  IF \E i \in DOMAIN data : data[i] = "="
  THEN LET kvs == SplitChar(data, ";", <<>>)
       IN {SplitChar(kvs[i], "=", <<>>)[1] : i \in DOMAIN kvs}
  ELSE {}

\* Bytes of a notification value.  An ASCII byte is written as its character;
\* "C3" is the lead byte of a two-byte sequence, "EF" of a three-byte one,
\* and "A9", "BD", "BF" are continuation bytes.
Utf8Continuation == {"A9", "BD", "BF"}

\* The bytes that are not ASCII, and the characters that are not.
Utf8NonAscii == {"C3", "EF"} \cup Utf8Continuation
Utf8Wide == {"U+E9", "U+FD", "U+FF", "U+FFFD"}

\* The decoder byte by byte: a sequence that is cut off or out of place
\* becomes U+FFFD.
RECURSIVE Utf8DecodeSeq(_)
Utf8DecodeSeq(b) ==
  IF b = <<>> THEN <<>>
  ELSE IF Head(b) = "C3" /\ Len(b) >= 2 /\ b[2] \in Utf8Continuation
       THEN <<CASE b[2] = "A9" -> "U+E9" [] b[2] = "BD" -> "U+FD" [] OTHER -> "U+FF">>
              \o Utf8DecodeSeq(SubSeq(b, 3, Len(b)))
  ELSE IF Head(b) = "EF" /\ Len(b) >= 3 /\ b[2] = "BF" /\ b[3] = "BD"
       THEN <<"U+FFFD">> \o Utf8DecodeSeq(SubSeq(b, 4, Len(b)))
  ELSE IF Head(b) \in Utf8NonAscii
       THEN <<"U+FFFD">> \o Utf8DecodeSeq(Tail(b))
       ELSE <<Head(b)>> \o Utf8DecodeSeq(Tail(b))

\* new TextDecoder("utf-8").decode(value): one call decodes the whole value;
\* a value of ASCII bytes decodes to the same characters.
Utf8Decode(b) ==
  IF \A i \in DOMAIN b : b[i] \notin Utf8NonAscii THEN b ELSE Utf8DecodeSeq(b)

RECURSIVE Utf8EncodeSeq(_)
Utf8EncodeSeq(str) ==
  IF str = <<>> THEN <<>>
  ELSE (CASE Head(str) = "U+E9" -> <<"C3", "A9">>
          [] Head(str) = "U+FD" -> <<"C3", "BD">>
          [] Head(str) = "U+FF" -> <<"C3", "BF">>
          [] Head(str) = "U+FFFD" -> <<"EF", "BF", "BD">>
          [] OTHER -> <<Head(str)>>) \o Utf8EncodeSeq(Tail(str))

\* new TextEncoder().encode(str)
Utf8Encode(str) ==
  IF \A i \in DOMAIN str : str[i] \notin Utf8Wide THEN str ELSE Utf8EncodeSeq(str)

\* The characters of a property name.
PropertyChars(property) ==
  CASE property = "serial_number" ->
         <<"s", "e", "r", "i", "a", "l", "_", "n", "u", "m", "b", "e", "r">>
    [] property = "version_firmware" ->
         <<"v", "e", "r", "s", "i", "o", "n", "_", "f", "i", "r", "m", "w", "a", "r", "e">>
    [] OTHER -> <<>>

\* ------------------------------------------------- the session as a value
\* The fields a task reads and writes, and the microtasks it has queued.
Cur ==
  [command |-> command, ssp |-> startStreamingPromise, conn |-> _connected,
   strm |-> _streaming, listeners |-> listeners, notifying |-> notifying,
   buffer |-> buffer, serial |-> serial, version |-> version, proc |-> proc,
   sink |-> sink, wop |-> wroteOverPending, micro |-> <<>>]

Commit(S) ==
  /\ command' = S.command
  /\ startStreamingPromise' = S.ssp
  /\ _connected' = S.conn
  /\ _streaming' = S.strm
  /\ listeners' = S.listeners
  /\ notifying' = S.notifying
  /\ buffer' = S.buffer
  /\ serial' = S.serial
  /\ version' = S.version
  /\ proc' = S.proc
  /\ sink' = S.sink
  /\ wroteOverPending' = S.wop

OpAt(S, p) == Prog(vendor, S.proc[p].kind)[S.proc[p].ip]

\* ------------------------------------------------------------- promises
\* The promise of call p is unsettled and p awaits it.
Waiting(S, p) == p # None /\ S.proc[p].pc = "waiting"

\* resolve / reject of a promise: the first settlement wins, the reactions
\* (.then, .finally, the awaiting continuation) are queued as microtasks.
Settle(S, p, res, val) ==
  IF Waiting(S, p)
  THEN [S EXCEPT !.proc[p].pc = "settled", !.proc[p].res = res,
                 !.proc[p].val = val, !.micro = Append(@, p)]
  ELSE S

\* this.command?.reject(reason)
RejectCommand(S, reason) == Settle(S, S.command, reason, {})
\* this.command?.resolve(value)
ResolveCommand(S, val) == Settle(S, S.command, "ok", val)
\* this.startStreamingPromise?.resolve(undefined)
ResolveStart(S) == Settle(S, S.ssp, "ok", {})

\* this.onReceivePacket(packet), with the number of samples of the packet
Deliver(S, n) == [S EXCEPT !.sink = Append(@, n)]

\* rxChar.writeValue...(bytes): the write is in flight, the call awaits it.
StartWrite(S, p) ==
  [S EXCEPT !.proc[p].pc = "writing",
            !.proc[p].mark = IF S.proc[p].kind = "startStreaming" THEN Len(S.sink) ELSE @,
            !.wop = @ \/ (OpAt(S, p) = "cmd" /\ Waiting(S, S.command))]

\* The synchronous head of getValue / setValue / sendCommand, written first.
SendCommandHead_WriteFirst(S, p) == RejectCommand(StartWrite(S, p), "Superseded")

\* The synchronous head of getValue / setValue / sendCommand:
\*   this.command?.reject("Superseded"); await rxChar.writeValueWithoutResponse(..)
SendCommandHead(S, p) == StartWrite(RejectCommand(S, "Superseded"), p)

\* new Promise((resolve, reject) => (this.command = { resolve, reject }))
SetCommand(S, p) == [S EXCEPT !.command = p, !.proc[p].pc = "waiting"]

\* The cleanup left out.
ClearCommand_Kept(S) == S

\* .finally(() => (this.command = undefined))
ClearCommand(S) == [S EXCEPT !.command = None]

\* Run the call from its current await on.
BeginOp(S, p) ==
  CASE OpAt(S, p) = "cmd" -> SendCommandHead(S, p)
    [] OpAt(S, p) = "stream" ->
         [S EXCEPT !.ssp = p, !.proc[p].pc = "waiting"]
    [] OTHER -> StartWrite(S, p)

Throw(S, p, why) == [S EXCEPT !.proc[p].pc = "rejected", !.proc[p].res = why]

\* stopStreaming with the assignment left out
StopEffect_Kept(S) == S

\* stopStreaming after its write: runInAction(() => (this._streaming = false))
StopEffect(S) == [S EXCEPT !.strm = FALSE]

\* The statements that follow an await once it has completed.
OpEffect(S, p) ==
  LET k == S.proc[p].kind
      ip == S.proc[p].ip
      op == OpAt(S, p)
      val == S.proc[p].val
  IN CASE op = "stopwrite" -> StopEffect(S)
       [] op = "stream" ->
            [S EXCEPT !.strm = TRUE,
                      !.ssp = IF vendor = "Yost" THEN None ELSE @]
       [] op = "notif" /\ ip = 1 ->
            [S EXCEPT !.notifying = TRUE,
                      !.listeners = IF vendor = "Qsense" THEN @ \cup {"ondata2"} ELSE @]
       [] k = "init" /\ vendor = "Qsense" /\ ip = 3 ->
            IF "whoAmI" \in val THEN [S EXCEPT !.serial = "set"]
            ELSE Throw(S, p, "TypeError")
       [] k = "init" /\ vendor = "Qsense" /\ ip = 4 ->
            IF "version" \in val THEN [S EXCEPT !.version = "set"]
            ELSE Throw(S, p, "TypeError")
       [] k = "init" /\ vendor = "Yost" /\ ip = 3 ->
            [S EXCEPT !.serial = IF val # {} THEN "set" ELSE "undefined"]
       [] k = "init" /\ vendor = "Yost" /\ ip = 4 ->
            [S EXCEPT !.version = IF val # {} THEN "set" ELSE "undefined"]
       [] OTHER -> S

\* The end of an async function: init sets _connected.
Finish(S, p) ==
  [S EXCEPT !.proc[p].pc = "resolved",
            !.conn = IF S.proc[p].kind = "init" THEN TRUE ELSE @]

\* An await of call p has completed: run p up to its next await.
CompleteOp(S, p) ==
  LET S1 == OpEffect(S, p)
  IN IF S1.proc[p].pc = "rejected" THEN S1
     ELSE IF S1.proc[p].ip = Len(Prog(vendor, S1.proc[p].kind)) THEN Finish(S1, p)
     ELSE BeginOp([S1 EXCEPT !.proc[p].ip = @ + 1], p)

\* The microtask checkpoint at the end of a task: the reactions of every
\* promise settled in the task, in settlement order.
RECURSIVE RunMicrotasks(_)
RunMicrotasks(S) ==
  IF S.micro = <<>> THEN S
  ELSE LET p == Head(S.micro)
           S0 == [S EXCEPT !.micro = Tail(@)]
           S1 == IF OpAt(S0, p) \in {"cmd", "pin"} THEN ClearCommand(S0) ELSE S0
           S2 == IF S1.proc[p].res = "ok" THEN CompleteOp(S1, p)
                 ELSE [S1 EXCEPT !.proc[p].pc = "rejected"]
       IN RunMicrotasks(S2)

\* ------------------------------------------------------- received frames
\* NoraxonSensor: a notification value by its byteLength and its count byte
\* (null: the characteristic has no value).
NoraxonFrames ==
  { [null |-> TRUE, byteLength |-> 0, nFrames |-> 0],
    [null |-> FALSE, byteLength |-> 3, nFrames |-> 0],
    [null |-> FALSE, byteLength |-> 5, nFrames |-> 0],
    [null |-> FALSE, byteLength |-> 5, nFrames |-> 1],
    [null |-> FALSE, byteLength |-> 5 + frameSize, nFrames |-> 1] }

\* parseData: the number of samples returned, Undefined for a dropped frame.
parseData(value) ==
  IF value.byteLength < 5 THEN Undefined
  ELSE IF value.byteLength < 5 + value.nFrames * frameSize THEN Undefined
  ELSE value.nFrames

\* NoraxonSensor.handleData
NoraxonHandleData(S, value) ==
  IF value.null THEN S
  ELSE LET S1 == ResolveStart(S)
           packet == parseData(value)
       IN IF packet # Undefined THEN Deliver(S1, packet) ELSE S1

\* QsenseSensor: a packet by its address, its length and the first header
\* byte of a stream payload (mode and buffering nibbles).
QsenseFrames ==
  { [address |-> MemoryAddress.whoAmI, length |-> 4, mode |-> 0, buffering |-> 0],
    [address |-> MemoryAddress.version, length |-> 4, mode |-> 0, buffering |-> 0],
    [address |-> MemoryAddress.pin, length |-> 4, mode |-> 0, buffering |-> 0],
    [address |-> STREAM_MEMORY_ADDRESS, length |-> STREAM_MEMORY_SIZE,
     mode |-> 3, buffering |-> 1],
    [address |-> STREAM_MEMORY_ADDRESS, length |-> STREAM_MEMORY_SIZE,
     mode |-> 7, buffering |-> 1],
    [address |-> 2 * STREAM_MEMORY_ADDRESS, length |-> 4, mode |-> 0, buffering |-> 0] }

\* QsenseInterface.parsePacket: which parser the packet goes to.
PacketType(f) ==
  IF f.address + f.length <= CONTROL_MEMORY_SIZE THEN "control"
  ELSE IF f.address = STREAM_MEMORY_ADDRESS /\ f.length = STREAM_MEMORY_SIZE
       THEN "stream"
       ELSE "throw"

\* The containment check with the upper bound made strict.
ControlFields_Strict(f) ==
  { name \in DOMAIN FieldSize :
      /\ f.address <= MemoryAddress[name]
      /\ f.address + f.length > MemoryAddress[name] + FieldSize[name] }

\* QsenseInterface.parseControlMemory: the fields the response reports.
ControlFields(f) ==
  { name \in DOMAIN FieldSize :
      /\ f.address <= MemoryAddress[name]
      /\ f.address + f.length >= MemoryAddress[name] + FieldSize[name] }

\* QsenseInterface.parseStreamData: the samples of the packet handed to the
\* sink (data is undefined for an unknown mode).
StreamSamples(f) == IF f.mode \in DataModes THEN f.buffering ELSE 0

\* QsenseSensor.handleData
QsenseHandleData(S, f) ==
  CASE PacketType(f) = "throw" -> S
    [] PacketType(f) = "control" -> ResolveCommand(S, ControlFields(f))
    [] OTHER -> Deliver(ResolveStart(S), StreamSamples(f))

\* YostSensor: the lines and chunks the device is seen to send.
OkLine == <<"0", ",", "1">>
ErrLine == <<"2", ",", "0">>
SerialLine == PropertyChars("serial_number") \o <<"=", "7">>
VersionLine == PropertyChars("version_firmware") \o <<"=", "7">>
Xyz == <<"0", ",", "-", "1", ",", "0", ".", "5">>
PacketLine ==
  <<"4", "2", ";">> \o <<"0", ",">> \o Xyz \o <<";">> \o Xyz \o <<";">> \o Xyz
    \o <<";">> \o Xyz
YostChunks ==
  { OkLine \o CRLF, ErrLine \o CRLF, SerialLine \o CRLF, VersionLine \o CRLF,
    PacketLine \o CRLF, OkLine \o CRLF \o PacketLine \o CRLF,
    <<"0", ",">>, <<"1", CR, LF>> }

\* The property of the command in the slot (this.command.property).
SlotProperty(S) ==
  LET c == S.proc[S.command]
  IN PropertyChars(CmdProperty(vendor, c.kind, c.ip, c.arg))

\* new Error(ERROR_CODES[error]).message (ERROR_CODES has the keys 0..3; the
\* message of new Error(undefined) is empty)
ErrorMessage(error) ==
  CASE error = 0 -> "Success"
    [] error = 1 -> "Generic Error"
    [] error = 2 -> "Invalid Key/Readonly"
    [] error = 3 -> "Invalid Value"
    [] OTHER -> ""

\* YostSensor.handleMessage
handleMessage(S, data) ==
  IF MatchesPacket(data) THEN Deliver(ResolveStart(S), 1)
  ELSE IF MatchesResponse(data)
  THEN IF ParseInt(SplitChar(data, ",", <<>>)[1], 0) # 0
       THEN RejectCommand(S, ErrorMessage(ParseInt(SplitChar(data, ",", <<>>)[1], 0)))
       ELSE ResolveCommand(S, {})
  ELSE IF S.command # None /\ SlotProperty(S) \in BodyKeys(data)
       THEN ResolveCommand(S, {SlotProperty(S)})
       ELSE ResolveCommand(S, {})

RECURSIVE handleMessages(_, _)
handleMessages(S, messages) ==
  IF messages = <<>> THEN S
  ELSE handleMessages(handleMessage(S, Head(messages)), Tail(messages))

\* joinDataViews(this.buffer, value) when there is a buffer, decoded
JoinedText(buf, value) == Utf8Decode(IF buf # <<>> THEN buf \o value ELSE value)

\* messages after messages.pop(): the complete lines of the joined text
Messages(buf, value) ==
  LET parts == SplitCRLF(JoinedText(buf, value), <<>>)
  IN SubSeq(parts, 1, Len(parts) - 1)

\* this.buffer after the call: lastMessage, encoded (<<>> is undefined)
HeldBack(buf, value) ==
  LET parts == SplitCRLF(JoinedText(buf, value), <<>>)
  IN Utf8Encode(parts[Len(parts)])

\* YostSensor.handleData: join with the held-over tail, split, hold back the
\* last segment, handle the complete lines in order.
YostHandleData(S, value) ==
  handleMessages([S EXCEPT !.buffer = HeldBack(S.buffer, value)],
                 Messages(S.buffer, value))

handleData(S, f) ==
  CASE vendor = "Noraxon" -> NoraxonHandleData(S, f)
    [] vendor = "Qsense" -> QsenseHandleData(S, f)
    [] vendor = "Yost" -> YostHandleData(S, f)

\* handleDisconnect
handleDisconnect(S) == [S EXCEPT !.conn = FALSE]

\* ---------------------------------------------------------------- getters
\* get connected()
connected == _connected /\ link = "up"

\* get streaming() without the connected check
streaming_FlagOnly == _streaming

\* get streaming()
streaming == _streaming /\ connected

\* get streamStarting()
streamStarting == startStreamingPromise # None

\* ------------------------------------------------------- session actions
\* The listeners the constructor (and QsenseSensor.create) registers.
ConstructorListeners(v) ==
  CASE v = "Noraxon" -> {"ondisconnct", "ondata", "onbattery"}
    [] v = "Qsense" -> {"createdisconnect", "ondisconnct", "ondata"}
    [] v = "Yost" -> {"ondisconnct", "ondata"}

\* An onDispose that detaches one listener per call.
OnDisposeRemoves_OnePerCall(v) ==
  IF "ondata" \in listeners THEN {"ondata"} ELSE {"ondisconnct", "onbattery"}

\* The listeners onDispose removes.
OnDisposeRemoves(v) ==
  IF v = "Noraxon" THEN {"ondisconnct", "ondata", "onbattery"}
  ELSE {"ondisconnct", "ondata"}

DisconnectListeners == {"createdisconnect", "ondisconnct"}
DataListeners == <<"ondata", "ondata2">>

\* The state after the constructor, with init() at its first await.
Init ==
  /\ vendor \in Vendors
  /\ link = "up"
  /\ _connected = FALSE
  /\ _streaming = FALSE
  /\ command = None
  /\ startStreamingPromise = None
  /\ listeners = ConstructorListeners(vendor)
  /\ notifying = FALSE
  /\ buffer = <<>>
  /\ version = IF vendor = "Noraxon" THEN "set" ELSE "undefined"
  /\ serial \in IF vendor = "Noraxon" THEN {"set", "undefined"} ELSE {"undefined"}
  /\ proc = [p \in Pids |->
               IF p = InitPid
               THEN [IdleProc EXCEPT !.kind = "init", !.ip = 1, !.pc = "writing"]
               ELSE IdleProc]
  /\ sink = <<>>
  /\ disposed = FALSE
  /\ disposeCalls = 0
  /\ handlerAfterDispose = FALSE
  /\ wroteOverPending = FALSE
  /\ conn = [pc |-> "off"]
  /\ rx = [pc |-> "off"]

\* create() has returned the session to its caller.
Created == proc[InitPid].pc = "resolved"

\* The caller invokes getValue / setValue / startStreaming / stopStreaming.
Call(p, kind, arg) ==
  /\ Created
  /\ proc[p].pc = "idle"
  /\ \A q \in UserPids : q < p => proc[q].pc # "idle"
  /\ kind \in UserKinds(vendor)
  /\ arg \in (IF kind \in {"getValue", "setValue"} THEN Args(vendor) ELSE {""})
  /\ LET S0 == [Cur EXCEPT !.proc[p] =
                  [IdleProc EXCEPT !.kind = kind, !.ip = 1, !.arg = arg]]
     IN Commit(RunMicrotasks(BeginOp(S0, p)))
  /\ UNCHANGED <<vendor, link, disposed, disposeCalls, handlerAfterDispose, conn, rx>>

\* A write (or startNotifications) of call p completes.
WriteAck(p) ==
  /\ link = "up"
  /\ proc[p].pc = "writing"
  /\ Commit(RunMicrotasks(
       IF OpAt(Cur, p) \in {"cmd", "pin"} THEN SetCommand(Cur, p)
       ELSE CompleteOp(Cur, p)))
  /\ UNCHANGED <<vendor, link, disposed, disposeCalls, handlerAfterDispose, conn, rx>>

\* A write of call p fails: the link is down.
WriteFail(p) ==
  /\ link # "up"
  /\ proc[p].pc = "writing"
  /\ Commit(Throw(Cur, p, "NetworkError"))
  /\ UNCHANGED <<vendor, link, disposed, disposeCalls, handlerAfterDispose, conn, rx>>

\* The registered data listeners run on one notification, each followed by a
\* microtask checkpoint.
RECURSIVE Dispatch(_, _, _)
Dispatch(S, ls, f) ==
  IF ls = <<>> THEN S
  ELSE Dispatch(
         IF Head(ls) \in S.listeners THEN RunMicrotasks(handleData(S, f)) ELSE S,
         Tail(ls), f)

\* characteristicvaluechanged on txChar
Notify(v, f) ==
  /\ vendor = v
  /\ link = "up"
  /\ notifying
  /\ \E i \in DOMAIN DataListeners : DataListeners[i] \in listeners
  /\ LET S == Dispatch(Cur, DataListeners, f)
     IN /\ S.sink = sink \/ Len(sink) < MaxSink
        /\ Len(S.buffer) <= MaxBuffer
        /\ Commit(S)
  /\ handlerAfterDispose' = (handlerAfterDispose \/ disposed)
  /\ UNCHANGED <<vendor, link, disposed, disposeCalls, conn, rx>>

\* gattserverdisconnected: the listeners still registered run.
FireDisconnected(S) ==
  IF listeners \cap DisconnectListeners # {} THEN handleDisconnect(S) ELSE S

\* The transport loses the link.
LinkLoss ==
  /\ link = "up"
  /\ link' = "lost"
  /\ Commit(FireDisconnected(Cur))
  /\ handlerAfterDispose' = (handlerAfterDispose \/ disposed)
  /\ UNCHANGED <<vendor, disposed, disposeCalls, conn, rx>>

\* dispose(): onDispose(), then device.gatt.disconnect(), which fires
\* gattserverdisconnected when the link was up.
Dispose ==
  /\ Created
  /\ disposeCalls < MaxDisposeCalls
  /\ disposeCalls' = disposeCalls + 1
  /\ disposed' = TRUE
  /\ LET S == [Cur EXCEPT !.listeners = @ \ OnDisposeRemoves(vendor)]
     IN IF link = "up"
        THEN /\ link' = "released"
             /\ Commit(IF S.listeners \cap DisconnectListeners # {}
                       THEN handleDisconnect(S) ELSE S)
             /\ handlerAfterDispose' =
                  (handlerAfterDispose \/ S.listeners \cap DisconnectListeners # {})
        ELSE /\ link' = link
             /\ Commit(S)
             /\ handlerAfterDispose' = handlerAfterDispose
  /\ UNCHANGED <<vendor, conn, rx>>

Next ==
  \/ \E p \in UserPids, kind \in {"getValue", "setValue", "startStreaming", "stopStreaming"},
        arg \in {"", "whoAmI", "version", "serial_number", "version_firmware"} :
       Call(p, kind, arg)
  \/ \E p \in Pids : WriteAck(p)
  \/ \E p \in Pids : WriteFail(p)
  \/ \E f \in NoraxonFrames : Notify("Noraxon", f)
  \/ \E f \in QsenseFrames : Notify("Qsense", f)
  \/ \E f \in YostChunks : Notify("Yost", f)
  \/ LinkLoss
  \/ Dispose

Spec == Init /\ [][Next]_vars

\* Environment fairness: a write that can complete or fail eventually does.
FairSpec ==
  /\ Spec
  /\ WF_vars(\E p \in Pids : WriteAck(p))
  /\ WF_vars(\E p \in Pids : WriteFail(p))

\* ================================================== connection procedure
\* getDeviceAndChars (NoraxonInterface.ts, with the overall timeout) and
\* getUartDeviceAndChars (uart.ts, without), for one connect call.
\*   conn.pc                 where the async function is suspended
\*   conn.promise            the promise the function creates and returns
\*   conn.settled            the flag its .finally reaction sets
\*   conn.remainingAttempts  the loop counter
\*   conn.attempts           server.connect() calls made
\*   conn.gatt               server.connected
\*   conn.timer              the overall timeout: "none", "armed", "fired"
\*   conn.call               the promise of the connect call itself
DefaultNoraxonAttempts == 3
DefaultUartAttempts == 10
DefaultMaxAttempts(v) ==
  IF v = "Noraxon" THEN DefaultNoraxonAttempts ELSE DefaultUartAttempts

HasTimeout(v) == v = "Noraxon"

\* The .finally(() => (settled = true)) reaction, run at the microtask
\* checkpoint that follows the settlement of the promise.
ConnMicrotasks(c) == [c EXCEPT !.settled = (c.promise # "pending")]

\* resolve(...) / reject(...) of the promise: the first settlement wins.
ConnSettle(c, how, why) ==
  IF c.promise = "pending" THEN [c EXCEPT !.promise = how, !.reason = why] ELSE c

\* while (!settled), the attempt budget left out
LoopGuard_NoBudget(c) == ~c.settled

\* while (!settled && remainingAttempts--)
LoopGuard(c) == ~c.settled /\ c.remainingAttempts # 0

\* The loop condition is evaluated and the function runs to its next await:
\* either the next server.connect(), or the end of the function.
LoopStep(c) ==
  LET dec == IF c.settled THEN c
             ELSE [c EXCEPT !.remainingAttempts = @ - 1]
  IN IF LoopGuard(c)
     THEN [dec EXCEPT !.pc = "connecting", !.attempts = @ + 1]
     ELSE LET r == IF ~dec.settled THEN ConnSettle(dec, "rejected", "attempts") ELSE dec
          IN [r EXCEPT !.pc = "returned", !.call = r.promise]

ConnectInit ==
  /\ vendor \in Vendors
  /\ link = "none"
  /\ _connected = FALSE
  /\ _streaming = FALSE
  /\ command = None
  /\ startStreamingPromise = None
  /\ listeners = {}
  /\ notifying = FALSE
  /\ buffer = <<>>
  /\ version = "undefined"
  /\ serial = "undefined"
  /\ proc = [p \in Pids |-> IdleProc]
  /\ sink = <<>>
  /\ disposed = FALSE
  /\ disposeCalls = 0
  /\ handlerAfterDispose = FALSE
  /\ wroteOverPending = FALSE
  /\ \E m \in (1..MaxAttemptsArg) \cup {DefaultMaxAttempts(vendor)} :
       conn = [pc |-> "requesting", promise |-> "pending", reason |-> "",
               settled |-> FALSE, maxAttempts |-> m, remainingAttempts |-> m,
               attempts |-> 0, gatt |-> FALSE, aborted |-> FALSE,
               timer |-> "none", call |-> "pending"]
  /\ rx = [pc |-> "off"]

\* navigator.bluetooth.requestDevice resolves: the timeout is armed (family
\* 1) and the loop is entered.
RequestDeviceOk ==
  /\ conn.pc = "requesting"
  /\ conn' = ConnMicrotasks(LoopStep(
       [conn EXCEPT !.timer = IF HasTimeout(vendor) THEN "armed" ELSE @]))
  /\ UNCHANGED <<svars, rx>>

\* requestDevice rejects (no device chosen) or the device has no GATT server.
RequestDeviceFail ==
  /\ conn.pc = "requesting"
  /\ conn' = [conn EXCEPT !.pc = "threw", !.call = "rejected"]
  /\ UNCHANGED <<svars, rx>>

\* await server.connect() resolves.
ConnectOk ==
  /\ conn.pc = "connecting"
  /\ ~conn.aborted
  /\ conn' = [conn EXCEPT !.pc = "binding", !.gatt = TRUE]
  /\ UNCHANGED <<svars, rx>>

\* await server.connect() rejects: the catch block waits 100 ms.
ConnectFail ==
  /\ conn.pc = "connecting"
  /\ conn' = [conn EXCEPT !.pc = "sleeping", !.aborted = FALSE]
  /\ UNCHANGED <<svars, rx>>

\* getPrimaryService and the getCharacteristic calls resolve: resolve(...),
\* then the loop condition, then the microtasks.
BindOk ==
  /\ conn.pc = "binding"
  /\ conn.gatt
  /\ conn' = ConnMicrotasks(LoopStep(ConnSettle(conn, "resolved", "")))
  /\ UNCHANGED <<svars, rx>>

\* getPrimaryService or a getCharacteristic call rejects.
BindFail ==
  /\ conn.pc = "binding"
  /\ conn' = [conn EXCEPT !.pc = "sleeping", !.aborted = FALSE]
  /\ UNCHANGED <<svars, rx>>

\* The 100 ms wait of the catch block ends.
Wake ==
  /\ conn.pc = "sleeping"
  /\ conn' = ConnMicrotasks(LoopStep(conn))
  /\ UNCHANGED <<svars, rx>>

\* The timeout callback without its first statement.
onTimeout_Unguarded(c) ==
  [ConnSettle(c, "rejected", "timeout") EXCEPT
     !.gatt = FALSE, !.aborted = (c.pc = "connecting")]

\* The callback of setTimeout(..., timeout):
\*   if (settled) return; reject(new Error(...)); server.disconnect();
onTimeout(c) ==
  IF c.settled THEN c
  ELSE [ConnSettle(c, "rejected", "timeout") EXCEPT
          !.gatt = FALSE, !.aborted = (c.pc = "connecting")]

\* The overall timeout fires.
TimeoutFires ==
  /\ conn.timer = "armed"
  /\ conn' = ConnMicrotasks([onTimeout(conn) EXCEPT !.timer = "fired"])
  /\ UNCHANGED <<svars, rx>>

ConnectNext ==
  \/ RequestDeviceOk
  \/ RequestDeviceFail
  \/ ConnectOk
  \/ ConnectFail
  \/ BindOk
  \/ BindFail
  \/ Wake
  \/ TimeoutFires

ConnectSpec == ConnectInit /\ [][ConnectNext]_vars

\* Timers fire (the 100 ms wait, the overall timeout), the chooser and the
\* service lookups answer, and a server.connect() that server.disconnect()
\* aborted rejects.  A server.connect() that nobody aborts may never answer.
ConnectFairSpec ==
  /\ ConnectSpec
  /\ WF_vars(Wake)
  /\ WF_vars(TimeoutFires)
  /\ WF_vars(RequestDeviceOk \/ RequestDeviceFail)
  /\ WF_vars(BindOk \/ BindFail)
  /\ WF_vars(conn.aborted /\ ConnectFail)

\* ============================================== one line sent in pieces
\* A YostSensor session that is connected and idle receives the bytes of one
\* line and its terminator in 1..3 notifications.
\*   rx.bytes     the line followed by CR LF
\*   rx.pending   the notification values still to arrive
\*   rx.received  the bytes that have arrived
\*   rx.log       the messages handleData has passed to handleMessage
\* The units lines are made of: ASCII bytes and one two-byte character.
LineUnits == {<<"0">>, <<",">>, <<CR>>, <<LF>>, <<"C3", "A9">>}

RECURSIVE UnitLines(_)
UnitLines(n) ==
  IF n = 0 THEN {<<>>}
  ELSE UnitLines(n - 1) \cup {l \o u : l \in UnitLines(n - 1), u \in LineUnits}

HasCRLF(l) == \E i \in 1..(Len(l) - 1) : l[i] = CR /\ l[i + 1] = LF

\* Lines of the protocol, and short lines of every shape.
RxLines ==
  {OkLine, SerialLine, PacketLine} \cup {l \in UnitLines(MaxLineUnits) : ~HasCRLF(l)}

\* The ways of cutting b into 1..3 non-empty notification values.
Splits(b) ==
  LET n == Len(b)
  IN {<<b>>}
     \cup {<<SubSeq(b, 1, i), SubSeq(b, i + 1, n)>> : i \in 1..(n - 1)}
     \cup {<<SubSeq(b, 1, ij[1]), SubSeq(b, ij[1] + 1, ij[2]), SubSeq(b, ij[2] + 1, n)>> :
             ij \in {x \in (1..(n - 1)) \X (1..(n - 1)) : x[1] < x[2]}}

ReassemblyInit ==
  /\ vendor = "Yost"
  /\ link = "up"
  /\ _connected = TRUE
  /\ _streaming = FALSE
  /\ command = None
  /\ startStreamingPromise = None
  /\ listeners = ConstructorListeners("Yost")
  /\ notifying = TRUE
  /\ buffer = <<>>
  /\ version = "set"
  /\ serial = "set"
  /\ proc = [p \in Pids |->
               IF p = InitPid
               THEN [IdleProc EXCEPT !.kind = "init", !.ip = 4, !.pc = "resolved"]
               ELSE IdleProc]
  /\ sink = <<>>
  /\ disposed = FALSE
  /\ disposeCalls = 0
  /\ handlerAfterDispose = FALSE
  /\ wroteOverPending = FALSE
  /\ conn = [pc |-> "off"]
  /\ \E l \in RxLines : \E c \in Splits(l \o CRLF) :
       rx = [bytes |-> l \o CRLF, pending |-> c, received |-> <<>>, log |-> <<>>]

\* characteristicvaluechanged with the next piece
RxNotify ==
  /\ rx.pending # <<>>
  /\ LET value == Head(rx.pending)
     IN /\ Commit(Dispatch(Cur, DataListeners, value))
        /\ rx' = [rx EXCEPT !.pending = Tail(@),
                            !.received = @ \o value,
                            !.log = @ \o Messages(buffer, value)]
  /\ UNCHANGED <<vendor, link, disposed, disposeCalls, handlerAfterDispose, conn>>

ReassemblyNext == RxNotify

ReassemblySpec == ReassemblyInit /\ [][ReassemblyNext]_vars

\* ========================================= notifications in arrival order
\* A session that is connected receives up to MaxNotifications notifications.
\*   rx.n        notifications received
\*   rx.arrived  the sample counts of the complete frames received, in order
OrderNoraxonFrames ==
  { [null |-> FALSE, byteLength |-> 5 + frameSize, nFrames |-> 1],
    [null |-> FALSE, byteLength |-> 5 + 2 * frameSize, nFrames |-> 2],
    [null |-> FALSE, byteLength |-> 5, nFrames |-> 1] }

OrderQsenseFrames ==
  { [address |-> STREAM_MEMORY_ADDRESS, length |-> STREAM_MEMORY_SIZE,
     mode |-> 3, buffering |-> 1],
    [address |-> STREAM_MEMORY_ADDRESS, length |-> STREAM_MEMORY_SIZE,
     mode |-> 3, buffering |-> 2],
    [address |-> MemoryAddress.version, length |-> 4, mode |-> 0, buffering |-> 0] }

OrderYostChunks ==
  { PacketLine \o CRLF,
    OkLine \o CRLF \o PacketLine \o CRLF,
    SubSeq(PacketLine, 1, 3),
    SubSeq(PacketLine, 4, Len(PacketLine)) \o CRLF }

\* The sample counts of the complete frames one notification carries.
FrameSamples(v, f) ==
  CASE v = "Noraxon" ->
         IF f.null \/ parseData(f) = Undefined THEN <<>> ELSE <<parseData(f)>>
    [] v = "Qsense" ->
         IF PacketType(f) = "stream" THEN <<StreamSamples(f)>> ELSE <<>>
    [] v = "Yost" ->
         LET lines == SelectSeq(Messages(buffer, f), MatchesPacket)
         IN [i \in DOMAIN lines |-> 1]

\* The listeners registered once create() has returned.
CreatedListeners(v) ==
  ConstructorListeners(v) \cup IF v = "Qsense" THEN {"ondata2"} ELSE {}

OrderInit ==
  /\ vendor \in Vendors
  /\ link = "up"
  /\ _connected = TRUE
  /\ _streaming = FALSE
  /\ command = None
  /\ startStreamingPromise = None
  /\ listeners = CreatedListeners(vendor)
  /\ notifying = TRUE
  /\ buffer = <<>>
  /\ version = "set"
  /\ serial = "set"
  /\ proc = [p \in Pids |->
               IF p = InitPid
               THEN [IdleProc EXCEPT !.kind = "init",
                                     !.ip = Len(Prog(vendor, "init")),
                                     !.pc = "resolved"]
               ELSE IdleProc]
  /\ sink = <<>>
  /\ disposed = FALSE
  /\ disposeCalls = 0
  /\ handlerAfterDispose = FALSE
  /\ wroteOverPending = FALSE
  /\ conn = [pc |-> "off"]
  /\ rx = [n |-> 0, arrived |-> <<>>]

\* characteristicvaluechanged on txChar
OrderNotify(v, f) ==
  /\ vendor = v
  /\ rx.n < MaxNotifications
  /\ LET S == Dispatch(Cur, DataListeners, f)
     IN Len(S.buffer) <= MaxBuffer /\ Commit(S)
  /\ rx' = [n |-> rx.n + 1, arrived |-> rx.arrived \o FrameSamples(v, f)]
  /\ UNCHANGED <<vendor, link, disposed, disposeCalls, handlerAfterDispose, conn>>

OrderNext ==
  \/ \E f \in OrderNoraxonFrames : OrderNotify("Noraxon", f)
  \/ \E f \in OrderQsenseFrames : OrderNotify("Qsense", f)
  \/ \E f \in OrderYostChunks : OrderNotify("Yost", f)

OrderSpec == OrderInit /\ [][OrderNext]_vars

\* ================================================== parseData on a value
\* parseData (NoraxonInterface.ts) applied to one notification value.
\*   rx.value  the value: its byteLength and its first five bytes
\*   rx.out    what parseData returned
\* A number up to 2^32 and beyond is kept as hi * 65536 + lo, lo < 65536.
\* getUint32(0), the big-endian default
getUint32_BigEndian(b) == [hi |-> b[1] * 256 + b[2], lo |-> b[3] * 256 + b[4]]

\* value.getUint32(0, true)
getUint32(b) == [hi |-> b[3] + 256 * b[4], lo |-> b[1] + 256 * b[2]]

\* x + d for a small d; a JavaScript number does not wrap at 2^32
Plus(x, d) ==
  [hi |-> x.hi + (x.lo + d) \div 65536, lo |-> (x.lo + d) % 65536]

\* parseData: undefined for a short or truncated value, else one frame per
\* declared frame with time = (millis0 + i * 10) / 1_000, kept as a fraction.
parseDataFrames(value) ==
  IF parseData(value) = Undefined
  THEN [returned |-> "undefined", frames |-> <<>>]
  ELSE LET millis0 == getUint32(value.head)
       IN [returned |-> "frames",
           frames |-> [k \in 1..value.nFrames |->
                         [time |-> [num |-> Plus(millis0, (k - 1) * 10), den |-> 1000]]]]

\* The byte values tried in the header.
HeaderBytes == {0, 1, 255}
ByteSamples == {0, 1, 128, 255}

ParseInit ==
  /\ vendor = "Noraxon"
  /\ link = "up"
  /\ _connected = TRUE
  /\ _streaming = FALSE
  /\ command = None
  /\ startStreamingPromise = None
  /\ listeners = CreatedListeners("Noraxon")
  /\ notifying = TRUE
  /\ buffer = <<>>
  /\ version = "set"
  /\ serial = "set"
  /\ proc = [p \in Pids |->
               IF p = InitPid
               THEN [IdleProc EXCEPT !.kind = "init", !.ip = 2, !.pc = "resolved"]
               ELSE IdleProc]
  /\ sink = <<>>
  /\ disposed = FALSE
  /\ disposeCalls = 0
  /\ handlerAfterDispose = FALSE
  /\ wroteOverPending = FALSE
  /\ conn = [pc |-> "off"]
  /\ \E h \in [1..4 -> HeaderBytes], n \in 0..MaxFrames, extra \in {0, 1} :
       \E len \in {4, 5 + n * frameSize - 1, 5 + n * frameSize + extra} :
         rx = [pc |-> "input",
               value |-> [null |-> FALSE, byteLength |-> len, nFrames |-> n,
                          head |-> h],
               out |-> [returned |-> "none", frames |-> <<>>]]

ParseStep ==
  /\ rx.pc = "input"
  /\ rx' = [rx EXCEPT !.pc = "parsed", !.out = parseDataFrames(rx.value)]
  /\ UNCHANGED <<svars, conn>>

ParseNext == ParseStep

ParseSpec == ParseInit /\ [][ParseNext]_vars

\* ==================================== createDataPacket then parsePacket
\* A Data packet built for one address of MemoryAddress, parsed back.
\*   rx.name    the address written, by its name
\*   rx.data    the bytes written
\*   rx.packet  createDataPacket(address, data)
\*   rx.report  the fields parsePacket reports, with their values
\* new Uint8Array(new Uint32Array([n]).buffer) / Uint16Array, little-endian
LE32(n) == <<n % 256, (n \div 256) % 256, (n \div 65536) % 256, n \div 16777216>>
LE16(n) == <<n % 256, (n \div 256) % 256>>

\* createDataPacket: Opcode.Data, address, length, data
createDataPacket(address, data) == <<2>> \o LE32(address) \o LE16(Len(data)) \o data

\* b.toString(16).padStart(2, "0")
HexDigits ==
  <<"0", "1", "2", "3", "4", "5", "6", "7", "8", "9", "a", "b", "c", "d", "e", "f">>
Hex2(b) == <<HexDigits[(b \div 16) + 1], HexDigits[(b % 16) + 1]>>

\* A little-endian unsigned integer, kept as its base-256 digits from the
\* most significant one.
ReadUintLE(b) == [i \in 1..Len(b) |-> b[Len(b) + 1 - i]]

\* new TextDecoder().decode(bytes) for ASCII and for bytes that cannot occur
\* in UTF-8 (code points; 65533 is U+FFFD)
DecodeName(b) == [i \in 1..Len(b) |-> IF b[i] < 128 THEN b[i] ELSE 65533]

\* The value parseControlMemory reports for a field read from bytes b.
FieldValue(kind, b) ==
  CASE kind = "uint" -> ReadUintLE(b)
    [] kind = "byte" -> b[1]
    [] kind = "mac" -> [i \in 1..Len(b) |-> Hex2(b[i])]
    [] kind = "text" -> DecodeName(b)
    [] kind = "timesync" ->
         IF b[1] % 128 = 0 THEN [isEnabled |-> FALSE]
         ELSE [isEnabled |-> TRUE, isMaster |-> b[1] >= 128, networkKey |-> b[1] % 128]
    [] kind = "algorithm" -> IF b[1] = 0 THEN "9 DoF" ELSE "6 DoF"

\* parseControlMemory(data, address, length)
parseControlMemory(data, address, length) ==
  LET present == ControlFields([address |-> address, length |-> length])
  IN [name \in present |->
        FieldValue(FieldKind[name],
                   SubSeq(data, MemoryAddress[name] - address + 1,
                          MemoryAddress[name] - address + FieldSize[name]))]

\* parsePacket on the bytes of a packet that lies in control memory
parsePacket(packet) ==
  LET address == packet[2] + 256 * packet[3] + 65536 * packet[4]
                   + 16777216 * packet[5]
      length == packet[6] + 256 * packet[7]
  IN parseControlMemory(SubSeq(packet, 8, 7 + length), address, length)

\* The bytes of a field: 4 for uiAnimation, which lies before deviceName.
WrittenSize(name) == IF name \in DOMAIN FieldSize THEN FieldSize[name] ELSE 4

\* The values written: every byte from a few samples.
WrittenValues(name) ==
  [1..WrittenSize(name) ->
     IF name = "deviceName" THEN {65, 122}
     ELSE IF WrittenSize(name) > 4 THEN {0, 255}
     ELSE ByteSamples]

RoundTripInit ==
  /\ vendor = "Qsense"
  /\ link = "up"
  /\ _connected = TRUE
  /\ _streaming = FALSE
  /\ command = None
  /\ startStreamingPromise = None
  /\ listeners = CreatedListeners("Qsense")
  /\ notifying = TRUE
  /\ buffer = <<>>
  /\ version = "set"
  /\ serial = "set"
  /\ proc = [p \in Pids |->
               IF p = InitPid
               THEN [IdleProc EXCEPT !.kind = "init", !.ip = 4, !.pc = "resolved"]
               ELSE IdleProc]
  /\ sink = <<>>
  /\ disposed = FALSE
  /\ disposeCalls = 0
  /\ handlerAfterDispose = FALSE
  /\ wroteOverPending = FALSE
  /\ conn = [pc |-> "off"]
  /\ \E name \in DOMAIN MemoryAddress : \E data \in WrittenValues(name) :
       rx = [pc |-> "input", name |-> name, data |-> data, packet |-> <<>>,
             report |-> <<>>]

CreateStep ==
  /\ rx.pc = "input"
  /\ rx' = [rx EXCEPT !.pc = "created",
                      !.packet = createDataPacket(MemoryAddress[rx.name], rx.data)]
  /\ UNCHANGED <<svars, conn>>

ParsePacketStep ==
  /\ rx.pc = "created"
  /\ rx' = [rx EXCEPT !.pc = "parsed", !.report = parsePacket(rx.packet)]
  /\ UNCHANGED <<svars, conn>>

RoundTripNext == CreateStep \/ ParsePacketStep

RoundTripSpec == RoundTripInit /\ [][RoundTripNext]_vars

\* ===================================== parseControlMemory on every range
\* parseControlMemory applied to a response that covers [address, address +
\* length) of control memory.
\*   rx.address, rx.length  the range the response covers
\*   rx.report              the names of the fields reported
ContainInit ==
  /\ vendor = "Qsense"
  /\ link = "up"
  /\ _connected = TRUE
  /\ _streaming = FALSE
  /\ command = None
  /\ startStreamingPromise = None
  /\ listeners = CreatedListeners("Qsense")
  /\ notifying = TRUE
  /\ buffer = <<>>
  /\ version = "set"
  /\ serial = "set"
  /\ proc = [p \in Pids |->
               IF p = InitPid
               THEN [IdleProc EXCEPT !.kind = "init", !.ip = 4, !.pc = "resolved"]
               ELSE IdleProc]
  /\ sink = <<>>
  /\ disposed = FALSE
  /\ disposeCalls = 0
  /\ handlerAfterDispose = FALSE
  /\ wroteOverPending = FALSE
  /\ conn = [pc |-> "off"]
  /\ \E address \in 0..CONTROL_MEMORY_SIZE :
       \E length \in 0..(CONTROL_MEMORY_SIZE - address) :
         rx = [pc |-> "input", address |-> address, length |-> length,
               report |-> {}]

ContainStep ==
  /\ rx.pc = "input"
  /\ rx' = [rx EXCEPT
              !.pc = "parsed",
              !.report = DOMAIN parseControlMemory([i \in 1..rx.length |-> 0],
                                                   rx.address, rx.length)]
  /\ UNCHANGED <<svars, conn>>

ContainNext == ContainStep

ContainSpec == ContainInit /\ [][ContainNext]_vars

\* ============================================ parseOptimizedPacket on a frame
\* parseOptimizedPacket applied to the payload of one stream frame.
\*   rx.data  the 237 bytes of the payload (data[k + 1] is the byte at offset k)
\*   rx.out   what parseOptimizedPacket returned
HEADER_LENGTH == 10
MaxBuffering == 10     \* sample slots of an Optimized frame

\* accScaleFactors and gyrScaleFactors, in millionths (Undefined: no entry)
accScaleFactors == <<61, 488, 122, 244>>
gyrScaleFactors == <<8750, 4375, 17500, 0, 35000, 0, 70000>>
ScaleAt(table, index) == IF index + 1 \in DOMAIN table THEN table[index + 1] ELSE Undefined

\* dataView.getInt16(position, true)
getInt16(data, position) ==
  LET u == data[position + 1] + 256 * data[position + 2]
  IN IF u >= 32768 THEN u - 65536 ELSE u

\* n * scale, kept as its factors
Scaled(n, scale) == [n |-> n, scale |-> scale]

\* raw9Dof with includeMag false
raw9Dof(data, position, accScale, gyrScale) ==
  [acc |-> [x |-> Scaled(getInt16(data, position), accScale),
            y |-> Scaled(getInt16(data, position + 2), accScale),
            z |-> Scaled(getInt16(data, position + 4), accScale)],
   gyro |-> [x |-> Scaled(getInt16(data, position + 6), gyrScale),
             y |-> Scaled(getInt16(data, position + 8), gyrScale),
             z |-> Scaled(getInt16(data, position + 10), gyrScale)]]

\* The first loop of parseOptimizedPacket: n quaternions from index on, each
\* component int16 / 32767.0, kept as a fraction.
RECURSIVE ReadQuaternions(_, _, _)
ReadQuaternions(data, index, n) ==
  IF n = 0 THEN <<>>
  ELSE <<[w |-> [num |-> getInt16(data, index), den |-> 32767],
          x |-> [num |-> getInt16(data, index + 2), den |-> 32767],
          y |-> [num |-> getInt16(data, index + 4), den |-> 32767],
          z |-> [num |-> getInt16(data, index + 6), den |-> 32767]]>>
       \o ReadQuaternions(data, index + 8, n - 1)

\* The second loop: n raw entries of 12 bytes from index on.
RECURSIVE ReadRaw(_, _, _, _, _)
ReadRaw(data, index, n, accScale, gyrScale) ==
  IF n = 0 THEN <<>>
  ELSE <<raw9Dof(data, index, accScale, gyrScale)>>
       \o ReadRaw(data, index + 12, n - 1, accScale, gyrScale)

\* The unused slots not skipped.
SkipUnused_None(buffering) == 0

\* index += 8 * (10 - buffering)
SkipUnused(buffering) == 8 * (10 - buffering)

parseOptimizedPacket(array, buffering, accScale, gyrScale) ==
  LET quaternions == ReadQuaternions(array, HEADER_LENGTH, buffering)
      index == HEADER_LENGTH + 8 * buffering + SkipUnused(buffering)
      rawData == ReadRaw(array, index, buffering, accScale, gyrScale)
  IN [quaternions |-> quaternions,
      accelerometers |-> [j \in DOMAIN rawData |-> rawData[j].acc],
      gyroscopes |-> [j \in DOMAIN rawData |-> rawData[j].gyro]]

\* parseStreamData for a frame of mode Optimized: buffering and the two range
\* indexes are taken from the header.
parseStreamDataOptimized(data) ==
  parseOptimizedPacket(data, data[1] \div 16,
                       ScaleAt(accScaleFactors, (data[10] \div 16) % 4),
                       ScaleAt(gyrScaleFactors, (data[10] \div 2) % 8))

\* Payloads: the byte at offset k is (k * m + c) % 256, under a header that
\* carries the mode, the buffering count and the ranges.
OptimizedPayloads ==
  { [k \in 1..STREAM_MEMORY_SIZE |->
       IF k = 1 THEN 3 + 16 * b
       ELSE IF k = 10 THEN r
       ELSE ((k - 1) * m + c) % 256] :
    b \in 0..MaxBuffering, r \in {0, 18}, m \in {1, 7, 37}, c \in {0, 128, 200} }

OptimizedInit ==
  /\ vendor = "Qsense"
  /\ link = "up"
  /\ _connected = TRUE
  /\ _streaming = FALSE
  /\ command = None
  /\ startStreamingPromise = None
  /\ listeners = CreatedListeners("Qsense")
  /\ notifying = TRUE
  /\ buffer = <<>>
  /\ version = "set"
  /\ serial = "set"
  /\ proc = [p \in Pids |->
               IF p = InitPid
               THEN [IdleProc EXCEPT !.kind = "init", !.ip = 4, !.pc = "resolved"]
               ELSE IdleProc]
  /\ sink = <<>>
  /\ disposed = FALSE
  /\ disposeCalls = 0
  /\ handlerAfterDispose = FALSE
  /\ wroteOverPending = FALSE
  /\ conn = [pc |-> "off"]
  /\ \E data \in OptimizedPayloads :
       rx = [pc |-> "input", data |-> data,
             out |-> [quaternions |-> <<>>, accelerometers |-> <<>>,
                      gyroscopes |-> <<>>]]

OptimizedStep ==
  /\ rx.pc = "input"
  /\ rx' = [rx EXCEPT !.pc = "parsed", !.out = parseStreamDataOptimized(rx.data)]
  /\ UNCHANGED <<svars, conn>>

OptimizedNext == OptimizedStep

OptimizedSpec == OptimizedInit /\ [][OptimizedNext]_vars

\* ============================================== the samples of one frame
\* One received frame turned into the samples the application stores:
\* parseData for family 1, parseStreamData and onReceiveQsensePacket for
\* family 2.
\*   rx.frame  the frame
\*   rx.batch  the samples produced from it, each with its time in seconds
\*             kept as a fraction whose numerator is hi * 65536 + lo
MaxBatch == 3       \* buffering counts tried for a family-2 frame

\* The stream header fields that make the timestamp, and the mode and
\* buffering nibbles.
BatchQsenseFrames ==
  { [mode |-> m, buffering |-> b, seconds |-> s, milliseconds |-> ms] :
      m \in DataModes \cup {7}, b \in 0..MaxBatch, s \in {0, 1}, ms \in {0, 1, 799} }

\* parseStreamData: timestamp = new Date(seconds * 1000 + milliseconds * 1.25),
\* in whole milliseconds
Timestamp(f) == f.seconds * 1000 + (f.milliseconds * 5) \div 4

\* parseStreamData: the length of data.quaternions (Undefined when the packet
\* has no such member: modes Mixed and Raw, and an unknown mode)
Quaternions(f) == IF f.mode \in {2, 3, 4} THEN f.buffering ELSE Undefined

\* onReceiveQsensePacket: one sample per quaternion, each with
\* time = p.timestamp.getTime() / 1_000
onReceiveQsensePacket(f) ==
  IF Quaternions(f) = Undefined THEN <<>>
  ELSE [i \in 1..Quaternions(f) |->
          [time |-> [num |-> [hi |-> Timestamp(f) \div 65536,
                              lo |-> Timestamp(f) % 65536],
                     den |-> 1000]]]

BatchInit ==
  /\ vendor \in {"Noraxon", "Qsense"}
  /\ link = "up"
  /\ _connected = TRUE
  /\ _streaming = TRUE
  /\ command = None
  /\ startStreamingPromise = None
  /\ listeners = CreatedListeners(vendor)
  /\ notifying = TRUE
  /\ buffer = <<>>
  /\ version = "set"
  /\ serial = "set"
  /\ proc = [p \in Pids |->
               IF p = InitPid
               THEN [IdleProc EXCEPT !.kind = "init",
                                     !.ip = Len(Prog(vendor, "init")),
                                     !.pc = "resolved"]
               ELSE IdleProc]
  /\ sink = <<>>
  /\ disposed = FALSE
  /\ disposeCalls = 0
  /\ handlerAfterDispose = FALSE
  /\ wroteOverPending = FALSE
  /\ conn = [pc |-> "off"]
  /\ IF vendor = "Noraxon"
     THEN \E h \in [1..4 -> HeaderBytes], n \in 0..MaxFrames :
            rx = [pc |-> "input",
                  frame |-> [null |-> FALSE, byteLength |-> 5 + n * frameSize,
                             nFrames |-> n, head |-> h],
                  batch |-> <<>>]
     ELSE \E f \in BatchQsenseFrames :
            rx = [pc |-> "input", frame |-> f, batch |-> <<>>]

\* handleData (NoraxonSensor): the frames parseData returns go to the sink,
\* which stores them as they are.
NoraxonBatch ==
  /\ vendor = "Noraxon"
  /\ rx.pc = "input"
  /\ rx' = [rx EXCEPT !.pc = "stored", !.batch = parseDataFrames(rx.frame).frames]
  /\ UNCHANGED <<svars, conn>>

\* handleData (QsenseSensor): the packet goes to onReceiveQsensePacket.
QsenseBatch ==
  /\ vendor = "Qsense"
  /\ rx.pc = "input"
  /\ rx' = [rx EXCEPT !.pc = "stored", !.batch = onReceiveQsensePacket(rx.frame)]
  /\ UNCHANGED <<svars, conn>>

BatchNext == NoraxonBatch \/ QsenseBatch

BatchSpec == BatchInit /\ [][BatchNext]_vars

\* ============================================ the getFloat16 polyfill
\* DataView.prototype.getFloat16 as NoraxonInterface.ts defines it when the
\* platform has none, applied to two bytes.
\*   rx.bytes  the two bytes at the offset
\*   rx.out    the number returned: NaN, an infinity, or sign * mant * 2^exp
\* Math.pow(2, e) with the bias left out
HalfExponent_Unbiased(e) == e

\* Math.pow(2, e - 15)
HalfExponent(e) == e - 15

getFloat16(bytes) ==
  LET bits == 256 * bytes[1] + bytes[2]     \* getUint16(offset, false)
      s == (bits \div 32768) % 2
      e == (bits \div 1024) % 32
      c == bits % 1024
      sign == IF s = 1 THEN -1 ELSE 1
  IN IF e = 0
     THEN [kind |-> "number", sign |-> sign, mant |-> c, exp |-> (-14) - 10]
     ELSE IF e = 31
     THEN IF c # 0 THEN [kind |-> "NaN", sign |-> 0, mant |-> 0, exp |-> 0]
          ELSE [kind |-> "Infinity", sign |-> sign, mant |-> 0, exp |-> 0]
     ELSE [kind |-> "number", sign |-> sign, mant |-> 1024 + c,
           exp |-> HalfExponent(e) - 10]

Float16Init ==
  /\ vendor = "Noraxon"
  /\ link = "up"
  /\ _connected = TRUE
  /\ _streaming = FALSE
  /\ command = None
  /\ startStreamingPromise = None
  /\ listeners = CreatedListeners("Noraxon")
  /\ notifying = TRUE
  /\ buffer = <<>>
  /\ version = "set"
  /\ serial = "set"
  /\ proc = [p \in Pids |->
               IF p = InitPid
               THEN [IdleProc EXCEPT !.kind = "init", !.ip = 2, !.pc = "resolved"]
               ELSE IdleProc]
  /\ sink = <<>>
  /\ disposed = FALSE
  /\ disposeCalls = 0
  /\ handlerAfterDispose = FALSE
  /\ wroteOverPending = FALSE
  /\ conn = [pc |-> "off"]
  /\ \E b \in [1..2 -> 0..255] :
       rx = [pc |-> "input", bytes |-> b,
             out |-> [kind |-> "none", sign |-> 0, mant |-> 0, exp |-> 0]]

Float16Step ==
  /\ rx.pc = "input"
  /\ rx' = [rx EXCEPT !.pc = "decoded", !.out = getFloat16(rx.bytes)]
  /\ UNCHANGED <<svars, conn>>

Float16Next == Float16Step

Float16Spec == Float16Init /\ [][Float16Next]_vars

\* ================================================ streaming on a live link
\* A session that create() has returned, on a link that stays up: the caller
\* starts and stops streaming, every write is acknowledged, and the device
\* keeps sending stream frames (and, for YostSensor, answers commands).
\* The sink is recorded up to MaxSink entries; later deliveries are made but
\* not recorded.
\*   rx.frames   the parity of the number of stream frames received
\*   rx.answers  the parity of the number of command answers received
LiveNoraxonFrames ==
  { [null |-> FALSE, byteLength |-> 5 + frameSize, nFrames |-> 1] }

LiveQsenseFrames ==
  { [address |-> STREAM_MEMORY_ADDRESS, length |-> STREAM_MEMORY_SIZE,
     mode |-> 3, buffering |-> 1] }

LiveYostFrames == { PacketLine \o CRLF }
LiveYostAnswers == { OkLine \o CRLF }

StartInit ==
  /\ vendor \in Vendors
  /\ link = "up"
  /\ _connected = TRUE
  /\ _streaming = FALSE
  /\ command = None
  /\ startStreamingPromise = None
  /\ listeners = CreatedListeners(vendor)
  /\ notifying = TRUE
  /\ buffer = <<>>
  /\ version = "set"
  /\ serial = "set"
  /\ proc = [p \in Pids |->
               IF p = InitPid
               THEN [IdleProc EXCEPT !.kind = "init",
                                     !.ip = Len(Prog(vendor, "init")),
                                     !.pc = "resolved"]
               ELSE IdleProc]
  /\ sink = <<>>
  /\ disposed = FALSE
  /\ disposeCalls = 0
  /\ handlerAfterDispose = FALSE
  /\ wroteOverPending = FALSE
  /\ conn = [pc |-> "off"]
  /\ rx = [pc |-> "live", frames |-> 0, answers |-> 0]

\* characteristicvaluechanged on txChar
LiveNotify(v, f, kind) ==
  /\ vendor = v
  /\ LET S == Dispatch(Cur, DataListeners, f)
     IN Commit([S EXCEPT !.sink = IF Len(@) > MaxSink THEN SubSeq(@, 1, MaxSink) ELSE @])
  /\ rx' = IF kind = "frame" THEN [rx EXCEPT !.frames = 1 - @]
           ELSE [rx EXCEPT !.answers = 1 - @]
  /\ UNCHANGED <<vendor, link, disposed, disposeCalls, handlerAfterDispose, conn>>

StartNext ==
  \/ \E p \in UserPids, kind \in {"startStreaming", "stopStreaming"} : Call(p, kind, "")
  \/ \E p \in Pids : WriteAck(p)
  \/ \E f \in LiveNoraxonFrames : LiveNotify("Noraxon", f, "frame")
  \/ \E f \in LiveQsenseFrames : LiveNotify("Qsense", f, "frame")
  \/ \E f \in LiveYostFrames : LiveNotify("Yost", f, "frame")
  \/ \E f \in LiveYostAnswers : LiveNotify("Yost", f, "answer")

StartSpec == StartInit /\ [][StartNext]_vars

\* Every write is acknowledged, stream frames keep arriving, and a YostSensor
\* device keeps answering.
StartFairSpec ==
  /\ StartSpec
  /\ WF_vars(\E p \in Pids : WriteAck(p))
  /\ []<>(rx.frames = 0) /\ []<>(rx.frames = 1)
  /\ []<>(vendor = "Yost" => rx.answers = 0)
  /\ []<>(vendor = "Yost" => rx.answers = 1)

\* =============================================== a line whose handling throws
\* A YostSensor session receives one chunk of complete lines and a partial
\* last segment; the sink (onReceivePacket) throws on some of the sample
\* lines.
\*   rx.lines   the complete lines of the chunk, in order
\*   rx.tail    the partial segment after the last terminator
\*   rx.throws  the lines (by position) on which the sink throws
\*   rx.trace   the lines handleMessage has been called with, in order
MaxLines == 2
ShortXyz == <<"0", ",", "0", ",", "0">>
ShortPacketLine ==
  <<"4", ";", "0", ",">> \o ShortXyz \o <<";">> \o ShortXyz \o <<";">> \o ShortXyz
    \o <<";">> \o ShortXyz
CatchLines == {ShortPacketLine, <<"7">> \o ShortPacketLine, OkLine}
CatchTails == {<<>>, <<"0", ",">>}

RECURSIVE Chunk(_, _)
Chunk(lines, tail) ==
  IF lines = <<>> THEN tail ELSE Head(lines) \o CRLF \o Chunk(Tail(lines), tail)

\* The session value with the lines handleMessage was called with.
Traced(S) ==
  [f \in DOMAIN S \cup {"trace"} |-> IF f = "trace" THEN <<>> ELSE S[f]]

\* handleMessage on a sample line when onReceivePacket throws: the statements
\* before the call have run.
handleMessageThrows(S, data) == ResolveStart(S)

\* The exception leaves the loop.
AfterThrow_Abort(messages, i) == Len(messages) + 1

\* catch (error) { console.warn(error); } : move on to the next message
AfterThrow(messages, i) == i + 1

\* for (const message of messages) { try { this.handleMessage(message) } ... }
RECURSIVE handleMessagesCaught(_, _, _, _)
handleMessagesCaught(S, messages, i, throws) ==
  IF i > Len(messages) THEN S
  ELSE LET S0 == [S EXCEPT !.trace = Append(@, messages[i])]
       IN IF i \in throws /\ MatchesPacket(messages[i])
          THEN handleMessagesCaught(handleMessageThrows(S0, messages[i]), messages,
                                    AfterThrow(messages, i), throws)
          ELSE handleMessagesCaught(handleMessage(S0, messages[i]), messages,
                                    i + 1, throws)

CatchInit ==
  /\ vendor = "Yost"
  /\ link = "up"
  /\ _connected = TRUE
  /\ _streaming = FALSE
  /\ listeners = ConstructorListeners("Yost")
  /\ notifying = TRUE
  /\ buffer = <<>>
  /\ version = "set"
  /\ serial = "set"
  /\ \E pending \in {"none", "command", "start"} :
       /\ command = IF pending = "command" THEN 1 ELSE None
       /\ startStreamingPromise = IF pending = "start" THEN 1 ELSE None
       /\ proc = [p \in Pids |->
                    IF p = InitPid
                    THEN [IdleProc EXCEPT !.kind = "init", !.ip = 4, !.pc = "resolved"]
                    ELSE IF p = 1 /\ pending = "command"
                    THEN [IdleProc EXCEPT !.kind = "getValue", !.ip = 1,
                                          !.pc = "waiting", !.arg = "serial_number"]
                    ELSE IF p = 1 /\ pending = "start"
                    THEN [IdleProc EXCEPT !.kind = "startStreaming", !.ip = 4,
                                          !.pc = "waiting"]
                    ELSE IdleProc]
  /\ sink = <<>>
  /\ disposed = FALSE
  /\ disposeCalls = 0
  /\ handlerAfterDispose = FALSE
  /\ wroteOverPending = FALSE
  /\ conn = [pc |-> "off"]
  /\ \E n \in 1..MaxLines : \E lines \in [1..n -> CatchLines] : \E tail \in CatchTails :
       \E throws \in SUBSET {i \in 1..n : lines[i] # OkLine} :
         rx = [pc |-> "ready", lines |-> lines, tail |-> tail, throws |-> throws,
               trace |-> <<>>]

\* characteristicvaluechanged: YostSensor.handleData with a sink that throws
\* on the lines of rx.throws
CatchNotify ==
  /\ rx.pc = "ready"
  /\ LET value == Chunk(rx.lines, rx.tail)
         S0 == [Traced(Cur) EXCEPT !.buffer = HeldBack(buffer, value)]
         S == RunMicrotasks(
                handleMessagesCaught(S0, Messages(buffer, value), 1, rx.throws))
     IN /\ Commit(S)
        /\ rx' = [rx EXCEPT !.pc = "handled", !.trace = S.trace]
  /\ UNCHANGED <<vendor, link, disposed, disposeCalls, handlerAfterDispose, conn>>

CatchNext == CatchNotify

CatchSpec == CatchInit /\ [][CatchNext]_vars

\* ===================================== the bytes a stream frame is read from
\* parseStreamData applied to a 237-byte payload, followed by which bytes of
\* the payload its parsers read as sample data.
\*   rx.first   byte 0 of the payload: mode nibble and buffering nibble
\*   rx.ranges  byte 9 of the payload: the range fields
\*   rx.out     the scale factors chosen, the payload offsets read as sample
\*              data, and whether a read raised a RangeError
RangeSamples == {0, 14, 48, 255}
StreamHeaders ==
  ((0..255) \X RangeSamples) \cup ({3 + 16} \X (0..255))

\* dataView.getFloat32(pos, true) and dataView.getInt16(pos, true) as the
\* bytes they ask the view for
F32(pos) == <<[pos |-> pos, n |-> 4]>>
I16(pos) == <<[pos |-> pos, n |-> 2]>>

\* for (let i = 0; i < n; i++) Body(i)
RECURSIVE Concat(_)
Concat(ss) == IF ss = <<>> THEN <<>> ELSE Head(ss) \o Concat(Tail(ss))
ForEach(i, n, Body(_)) == Concat([k \in 1..(n - i) |-> Body(i + k - 1)])

magOnly(position) == I16(position) \o I16(position + 2) \o I16(position + 4)

raw9DofReads(position, includeMag) ==
  I16(position) \o I16(position + 2) \o I16(position + 4) \o I16(position + 6)
    \o I16(position + 8) \o I16(position + 10)
    \o (IF includeMag THEN magOnly(position + 12) ELSE <<>>)

\* Each parser: the offset of the payload its DataView starts at, and the
\* reads it makes of the view, in order.
parseMixedPacket(buffering) ==
  [base |-> 10,
   reads |-> F32(0) \o F32(4) \o F32(8) \o F32(12) \o F32(16) \o F32(20) \o F32(24)
             \o ForEach(0, buffering, LAMBDA i : raw9DofReads(28 + i * 18, TRUE))]

parseRawPacket(buffering) ==
  [base |-> 0,
   reads |-> ForEach(0, buffering, LAMBDA i : raw9DofReads(i * 18, FALSE))]

parseQuatPacket(buffering) ==
  [base |-> 0,
   reads |-> ForEach(0, buffering,
                     LAMBDA i : F32(i * 16) \o F32(i * 16 + 4) \o F32(i * 16 + 8)
                                  \o F32(i * 16 + 12))]

parseOptimizedPacketReads(buffering) ==
  [base |-> 0,
   reads |-> ForEach(0, buffering,
                     LAMBDA j : I16(HEADER_LENGTH + 8 * j) \o I16(HEADER_LENGTH + 8 * j + 2)
                                  \o I16(HEADER_LENGTH + 8 * j + 4)
                                  \o I16(HEADER_LENGTH + 8 * j + 6))
             \o ForEach(0, buffering,
                        LAMBDA j : raw9DofReads(HEADER_LENGTH + 8 * buffering
                                                  + SkipUnused(buffering) + 12 * j,
                                                FALSE))]

parseQuatMagPacket(buffering) ==
  [base |-> 0,
   reads |-> ForEach(0, buffering,
                     LAMBDA i : F32(i * 28) \o F32(i * 28 + 4) \o F32(i * 28 + 8)
                                  \o F32(i * 28 + 12) \o magOnly(i * 28 + 16))]

\* The reads run in order against a view of byteLength bytes; a read that
\* does not fit raises a RangeError and ends the parser.
RunReads(p, byteLength) ==
  LET bad == {k \in DOMAIN p.reads : p.reads[k].pos + p.reads[k].n > byteLength}
      done == IF bad = {} THEN Len(p.reads)
              ELSE (CHOOSE k \in bad : \A j \in bad : k <= j) - 1
  IN [threw |-> bad # {},
      bytes |-> UNION {(p.base + p.reads[k].pos)..(p.base + p.reads[k].pos + p.reads[k].n - 1) :
                         k \in 1..done}]

\* parseStreamData: mode, buffering and the range indexes from the header,
\* then the parser of the mode.
parseStreamData(first, ranges) ==
  LET mode == first % 16
      buffering == first \div 16
      accRangeIndex == (ranges \div 16) % 4
      gyroRangeIndex == (ranges \div 2) % 8
      packet ==
        CASE mode = 0 -> RunReads(parseMixedPacket(buffering), STREAM_MEMORY_SIZE - 10)
          [] mode = 1 -> RunReads(parseRawPacket(buffering), STREAM_MEMORY_SIZE)
          [] mode = 2 -> RunReads(parseQuatPacket(buffering), STREAM_MEMORY_SIZE)
          [] mode = 3 -> RunReads(parseOptimizedPacketReads(buffering), STREAM_MEMORY_SIZE)
          [] mode = 4 -> RunReads(parseQuatMagPacket(buffering), STREAM_MEMORY_SIZE)
          [] OTHER -> [threw |-> FALSE, bytes |-> {}]
  IN [accRangeIndex |-> accRangeIndex, gyroRangeIndex |-> gyroRangeIndex,
      accScale |-> ScaleAt(accScaleFactors, accRangeIndex),
      gyrScale |-> ScaleAt(gyrScaleFactors, gyroRangeIndex),
      threw |-> packet.threw, bytes |-> packet.bytes]

StreamInit ==
  /\ vendor = "Qsense"
  /\ link = "up"
  /\ _connected = TRUE
  /\ _streaming = TRUE
  /\ command = None
  /\ startStreamingPromise = None
  /\ listeners = CreatedListeners("Qsense")
  /\ notifying = TRUE
  /\ buffer = <<>>
  /\ version = "set"
  /\ serial = "set"
  /\ proc = [p \in Pids |->
               IF p = InitPid
               THEN [IdleProc EXCEPT !.kind = "init", !.ip = 4, !.pc = "resolved"]
               ELSE IdleProc]
  /\ sink = <<>>
  /\ disposed = FALSE
  /\ disposeCalls = 0
  /\ handlerAfterDispose = FALSE
  /\ wroteOverPending = FALSE
  /\ conn = [pc |-> "off"]
  /\ \E h \in StreamHeaders :
       rx = [pc |-> "input", first |-> h[1], ranges |-> h[2],
             out |-> [accRangeIndex |-> 0, gyroRangeIndex |-> 0, accScale |-> 0,
                      gyrScale |-> 0, threw |-> FALSE, bytes |-> {}]]

StreamStep ==
  /\ rx.pc = "input"
  /\ rx' = [rx EXCEPT !.pc = "parsed", !.out = parseStreamData(rx.first, rx.ranges)]
  /\ UNCHANGED <<svars, conn>>

StreamNext == StreamStep

StreamSpec == StreamInit /\ [][StreamNext]_vars

\* ================================================================ claims
\* Call p awaits the promise of a correlated command (getValue, setValue,
\* sendCommand, the pin exchange) that is still unsettled.
CommandPending(p) ==
  /\ proc[p].pc = "waiting"
  /\ Prog(vendor, proc[p].kind)[proc[p].ip] \in {"cmd", "pin"}

\* In this step call p ran the synchronous head of a correlated command.
BeganCommand(p) ==
  /\ proc'[p].pc = "writing"
  /\ Prog(vendor, proc'[p].kind)[proc'[p].ip] = "cmd"
  /\ proc[p].pc # "writing" \/ proc[p].ip # proc'[p].ip

\* C1: after a link-loss event every correlated command promise pending at
\* that moment eventually settles.
C1_PendingCommandSettlesAfterLinkLoss ==
  \A p \in Pids :
    [](link = "lost" /\ CommandPending(p) => <>(~CommandPending(p)))

\* C2: at any time at most one correlated-command promise is unsettled, and
\* it is the one the pending slot holds (no unsettled promise is overwritten).
C2_AtMostOnePendingCommand ==
  /\ Cardinality({p \in Pids : CommandPending(p)}) <= 1
  /\ \A p \in Pids : CommandPending(p) => command = p

\* C3: when getValue is issued while an earlier getValue call has not been
\* awaited (it is unsettled), the earlier call is rejected with "Superseded"
\* by the time the second request is written.
C3_SecondGetValueSupersedesFirst ==
  [][\A p, q \in UserPids :
       ( /\ p # q
         /\ proc[p].kind = "getValue"
         /\ proc[p].pc \in {"writing", "waiting"}
         /\ proc[q].pc = "idle"
         /\ proc'[q].kind = "getValue" )
       => (proc'[p].pc = "rejected" /\ proc'[p].res = "Superseded")]_vars

\* C4: startStreaming() has resolved, and _streaming has been set by it, only
\* if a frame received after the start command was written put at least one
\* decoded sample into the sink.
C4_StartResolvesOnlyAfterSample ==
  \A p \in UserPids :
    (proc[p].kind = "startStreaming" /\ proc[p].pc = "resolved")
    => \E i \in DOMAIN sink : i > proc[p].mark /\ sink[i] > 0

\* C5: streaming is false whenever connected is false.
C5_NotStreamingWhileDisconnected == ~connected => ~streaming

C5_Witness == _streaming /\ ~connected

\* C6: a link loss leaves connected and streaming false, and from then on
\* the link stays lost and connected stays false whatever happens.
C6_LinkLossIsFinal ==
  [][ /\ (link = "up" /\ link' = "lost") => (~connected' /\ ~streaming')
      /\ link = "lost" => (link' = "lost" /\ ~connected' /\ ~streaming') ]_vars

C6_Witness ==
  /\ link = "lost"
  /\ _streaming
  /\ \E p \in UserPids : proc[p].kind = "startStreaming" /\ proc[p].pc = "resolved"
  /\ \E p \in UserPids : proc[p].kind # "startStreaming" /\ proc[p].pc # "idle"

\* C7: when a correlated command is issued while the slot holds an earlier,
\* unsettled command, that command is rejected with "Superseded", and this
\* happens before the new request is written.
C7_SupersededBeforeWrite ==
  [][ /\ \A p, c \in Pids :
           (p # c /\ command = c /\ proc[c].pc = "waiting" /\ BeganCommand(p))
           => (proc'[c].pc = "rejected" /\ proc'[c].res = "Superseded")
      /\ ~wroteOverPending' ]_vars

C7_Witness ==
  \E c \in Pids : proc[c].pc = "rejected" /\ proc[c].res = "Superseded"

\* C8: the slot never holds a settled command, and the slot is emptied only
\* in the step in which its own occupant settles.
C8_SlotClearedOnSettle ==
  [][ /\ command' # None => proc'[command'].pc = "waiting"
      /\ \A c \in Pids :
           (command = c /\ command' = None)
           => (proc'[c].pc # "waiting" \/ proc'[c].ip # proc[c].ip) ]_vars

C8_Witness ==
  \E c, q \in UserPids :
    /\ c # q
    /\ proc[c].kind = "getValue" /\ proc[c].pc = "resolved"
    /\ command = q /\ proc[q].pc = "waiting"

\* C9: from dispose() on, no notification and no disconnect event invokes a
\* handler of the session.
C9_NoHandlerAfterDispose == ~handlerAfterDispose

\* C10: the attempt that succeeds resolves the connect call, and no
\* server.connect() is started once the promise is resolved.
C10_NoAttemptAfterSuccess ==
  [][ /\ (conn.promise = "pending" /\ conn'.promise = "resolved")
         => (conn'.call = "resolved" /\ conn'.attempts = conn.attempts)
      /\ conn.promise = "resolved" => conn'.attempts = conn.attempts ]_vars

\* C11: a connect call that has started its attempts eventually settles,
\* also when a server.connect() never answers.
C11_ConnectCallSettles ==
  [](conn.pc \in {"connecting", "binding", "sleeping"}
       => <>(conn.call # "pending"))

\* C12: a connect call makes at most maxAttempts server.connect() calls and
\* waits after each failed one; when the budget is used up without success,
\* or the overall timeout fires before a settlement, the promise is rejected,
\* and after such a rejection no server.connect() is started.
C12_BoundedRetry ==
  [][ /\ conn'.attempts <= conn.maxAttempts
      /\ (conn.pc \in {"connecting", "binding"} /\ conn'.promise = "pending"
            /\ conn'.pc # conn.pc /\ conn'.pc # "binding")
         => conn'.pc = "sleeping"
      /\ (conn.pc = "sleeping" /\ conn.promise = "pending"
            /\ conn'.attempts > conn.attempts)
         => conn'.pc = "connecting" /\ conn.remainingAttempts > 0
      /\ (conn.pc = "sleeping" /\ conn.promise = "pending"
            /\ conn.remainingAttempts = 0 /\ conn'.pc # "sleeping")
         => (conn'.promise = "rejected" /\ conn'.call = "rejected"
              /\ conn'.attempts = conn.attempts)
      /\ (conn.timer = "armed" /\ conn'.timer = "fired"
            /\ conn.promise = "pending")
         => conn'.promise = "rejected"
      /\ conn.promise = "rejected" => conn'.attempts = conn.attempts ]_vars

C12_Witness ==
  /\ conn.pc = "returned"
  /\ conn.call = "rejected"
  /\ conn.reason = "attempts"
  /\ conn.maxAttempts = DefaultNoraxonAttempts
  /\ conn.attempts = conn.maxAttempts

\* C13: for a line sent in 1..3 notifications, nothing is passed to message
\* handling before the last byte of the terminator has arrived, and once it
\* has, exactly one message has been passed, the same as when the line
\* arrives in one notification.
C13_SplitLineDispatchedOnce ==
  /\ rx.received # rx.bytes => rx.log = <<>>
  /\ rx.received = rx.bytes
       => (Len(rx.log) = 1 /\ rx.log = Messages(<<>>, rx.bytes))

\* In this step call p entered startStreaming() or stopStreaming(): a call by
\* the caller, or the stopStreaming() that YostSensor.init awaits.
EntersStreamCall(p) ==
  \/ proc[p].pc = "idle" /\ proc'[p].kind \in {"startStreaming", "stopStreaming"}
  \/ /\ vendor = "Yost" /\ proc[p].kind = "init"
     /\ proc[p].ip = 1 /\ proc'[p].ip = 2

\* C14: startStreaming() or stopStreaming() entered while connected is false
\* fails with a not-connected error and starts no write.
C14_StreamCallNeedsConnected ==
  [][\A p \in Pids :
       (~connected /\ EntersStreamCall(p))
       => (proc'[p].pc = "rejected" /\ proc'[p].res = "NotConnected")]_vars

\* C15: when the write of a stopStreaming() call completes, that same step
\* sets _streaming to false (so streaming is false) and resolves the call,
\* with no notification in between.
C15_StopIsImmediate ==
  [][\A p \in UserPids :
       ( /\ proc[p].kind = "stopStreaming"
         /\ proc[p].pc = "writing"
         /\ proc'[p].pc # "writing"
         /\ link = "up" )
       => (proc'[p].pc = "resolved" /\ ~_streaming' /\ ~streaming' /\ sink' = sink)]_vars

C15_Witness ==
  \E p, q \in UserPids :
    /\ p # q
    /\ proc[p].kind = "startStreaming" /\ proc[p].pc = "resolved"
    /\ proc[q].kind = "stopStreaming" /\ proc[q].pc = "resolved"
    /\ sink # <<>>
    /\ ~_streaming

\* C16: streamStarting is true exactly while a startStreaming() call awaits
\* its first frame; it is false once that call has resolved or failed.
C16_StreamStartingIsTransient ==
  /\ streamStarting => proc[startStreamingPromise].pc = "waiting"
  /\ \A p \in UserPids :
       (proc[p].pc = "waiting" /\ Prog(vendor, proc[p].kind)[proc[p].ip] = "stream")
       => streamStarting

\* C17: a call of dispose() on a session that has been disposed of changes
\* nothing of the session.
C17_DisposeIsIdempotent ==
  [][(disposed /\ disposeCalls' # disposeCalls)
       => UNCHANGED <<vendor, link, _connected, _streaming, command,
                      startStreamingPromise, listeners, notifying, buffer, serial,
                      version, proc, sink, disposed, handlerAfterDispose,
                      wroteOverPending>>]_vars

C17_Witness ==
  /\ disposeCalls = MaxDisposeCalls
  /\ vendor = "Qsense"
  /\ link = "released"
  /\ \E p \in UserPids : proc[p].pc = "rejected"

\* C18: the sink has been handed the samples of the complete frames received,
\* each once, in the order of arrival.
C18_DeliveredInArrivalOrder == sink = rx.arrived

\* C19: for a value at least as long as its count byte N requires, parseData
\* returns exactly N samples, and sample i (from 0) has time
\* (baseMillis + 10 * i) / 1000, baseMillis being the little-endian uint32 of
\* the first four bytes (numbers are compared as high * 65536 + low).
C19_ParseDataTimes ==
  LET v == rx.value
      low == v.head[1] + v.head[2] * 256
      high == v.head[3] + v.head[4] * 256
  IN (rx.pc = "parsed" /\ v.byteLength >= 5 + v.nFrames * frameSize)
     => /\ rx.out.returned = "frames"
        /\ Len(rx.out.frames) = v.nFrames
        /\ \A k \in 1..v.nFrames :
             /\ rx.out.frames[k].time.num.lo = (low + 10 * (k - 1)) % 65536
             /\ rx.out.frames[k].time.num.hi = high + (low + 10 * (k - 1)) \div 65536
             /\ rx.out.frames[k].time.den = 1000

C19_Witness ==
  /\ rx.pc = "parsed"
  /\ rx.value.nFrames = MaxFrames
  /\ rx.value.byteLength = 5 + MaxFrames * frameSize
  /\ rx.value.head = <<255, 255, 0, 255>>
  /\ Len(rx.out.frames) = MaxFrames

\* The bytes a reported value stands for.
WrittenBack(kind, value) ==
  CASE kind = "uint" -> [i \in 1..Len(value) |-> value[Len(value) + 1 - i]]
    [] kind = "byte" -> <<value>>
    [] kind = "mac" ->
         [i \in 1..Len(value) |->
            CHOOSE b \in 0..255 : Hex2(b) = value[i]]
    [] kind = "text" -> value
    [] kind = "timesync" ->
         IF value.isEnabled
         THEN <<value.networkKey + (IF value.isMaster THEN 128 ELSE 0)>>
         ELSE <<0>>
    [] kind = "algorithm" -> IF value = "9 DoF" THEN <<0>> ELSE <<1>>

\* C20: for every address of MemoryAddress, the packet createDataPacket
\* builds for a value parses to a report that has the field of that address,
\* and the reported value stands for exactly the bytes written.
C20_DataPacketRoundTrip ==
  rx.pc = "parsed"
  => /\ rx.name \in DOMAIN rx.report
     /\ WrittenBack(FieldKind[rx.name], rx.report[rx.name]) = rx.data

Int16At(off) ==
  LET u == rx.data[off + 1] + 256 * rx.data[off + 2]
  IN IF u < 32768 THEN u ELSE u - 65536

\* C22: for an Optimized frame with buffering count b in 0..10 the result has
\* exactly b quaternions, entry j (from 0) being the four int16 at offset
\* 10 + 8 * j, each divided by 32767, and exactly b accelerometer and b
\* gyroscope entries, entry j being the int16 triples at offsets 90 + 12 * j
\* and 96 + 12 * j.
C22_OptimizedLayout ==
  LET b == rx.data[1] \div 16
  IN rx.pc = "parsed"
     => /\ Len(rx.out.quaternions) = b
        /\ Len(rx.out.accelerometers) = b
        /\ Len(rx.out.gyroscopes) = b
        /\ \A j \in 0..(b - 1) :
             /\ rx.out.quaternions[j + 1] =
                  [w |-> [num |-> Int16At(10 + 8 * j), den |-> 32767],
                   x |-> [num |-> Int16At(12 + 8 * j), den |-> 32767],
                   y |-> [num |-> Int16At(14 + 8 * j), den |-> 32767],
                   z |-> [num |-> Int16At(16 + 8 * j), den |-> 32767]]
             /\ rx.out.accelerometers[j + 1].x.n = Int16At(90 + 12 * j)
             /\ rx.out.accelerometers[j + 1].y.n = Int16At(92 + 12 * j)
             /\ rx.out.accelerometers[j + 1].z.n = Int16At(94 + 12 * j)
             /\ rx.out.gyroscopes[j + 1].x.n = Int16At(96 + 12 * j)
             /\ rx.out.gyroscopes[j + 1].y.n = Int16At(98 + 12 * j)
             /\ rx.out.gyroscopes[j + 1].z.n = Int16At(100 + 12 * j)

C22_Witness ==
  /\ rx.pc = "parsed"
  /\ rx.data[1] \div 16 = 3
  /\ Len(rx.out.quaternions) = 3
  /\ Len(rx.out.accelerometers) = 3
  /\ rx.out.quaternions[1].w.num < 0

\* a < b for two times with the same denominator
Earlier(a, b) ==
  a.num.hi < b.num.hi \/ (a.num.hi = b.num.hi /\ a.num.lo < b.num.lo)

\* C23: of two samples produced from the same received frame, the earlier one
\* in the batch has the smaller time.
C23_BatchTimesIncrease ==
  rx.pc = "stored"
  => \A i, j \in DOMAIN rx.batch :
       i < j => Earlier(rx.batch[i].time, rx.batch[j].time)

RECURSIVE Pow2(_)
Pow2(n) == IF n = 0 THEN 1 ELSE 2 * Pow2(n - 1)

\* The number out is sign * m * 2^x.
IsNumber(out, sign, m, x) ==
  LET low == IF out.exp < x THEN out.exp ELSE x
  IN /\ out.kind = "number"
     /\ out.sign = sign
     /\ out.mant * Pow2(out.exp - low) = m * Pow2(x - low)

\* C24: the polyfill decodes IEEE-754 binary16 (sign bit, 5-bit exponent
\* with bias 15, 10-bit mantissa): 0x3C00 is 1.0, 0x0000 is 0.0, 0x7C00 is
\* +Infinity, 0x7C01 is NaN, exponent field 0 gives sign * 2^-14 *
\* mantissa / 1024, exponent field 31 an infinity or NaN, and any other
\* exponent field e gives sign * 2^(e - 15) * (1 + mantissa / 1024).
C24_HalfFloatIsBinary16 ==
  LET bits == 256 * rx.bytes[1] + rx.bytes[2]
      sign == IF bits >= 32768 THEN -1 ELSE 1
      e == (bits % 32768) \div 1024
      mantissa == bits % 1024
  IN rx.pc = "decoded"
     => /\ bits = 15360 => IsNumber(rx.out, 1, 1, 0)
        /\ bits = 0 => IsNumber(rx.out, 1, 0, 0)
        /\ bits = 31744 => (rx.out.kind = "Infinity" /\ rx.out.sign = 1)
        /\ bits = 31745 => rx.out.kind = "NaN"
        /\ e = 0 => IsNumber(rx.out, sign, mantissa, -24)
        /\ (e = 31 /\ mantissa = 0) => (rx.out.kind = "Infinity" /\ rx.out.sign = sign)
        /\ (e = 31 /\ mantissa # 0) => rx.out.kind = "NaN"
        /\ e \in 1..30 => IsNumber(rx.out, sign, 1024 + mantissa, e - 25)

C24_Witness ==
  /\ rx.pc = "decoded"
  /\ rx.bytes = <<60, 0>>
  /\ rx.out = [kind |-> "number", sign |-> 1, mant |-> 1024, exp |-> -10]

\* Call p is a startStreaming() call awaiting its first frame.
AwaitsFirstFrame(p) ==
  /\ proc[p].kind = "startStreaming"
  /\ proc[p].pc = "waiting"
  /\ Prog(vendor, proc[p].kind)[proc[p].ip] = "stream"

\* C25: when startStreaming() has been called while an earlier
\* startStreaming() call awaits its first frame, the earlier call eventually
\* settles.
C25_EarlierStartSettles ==
  \A p \in UserPids :
    []((AwaitsFirstFrame(p)
         /\ \E q \in UserPids : q > p /\ proc[q].kind = "startStreaming")
        => <>(proc[p].pc \in {"resolved", "rejected"}))

\* C26: a getValue of the memory-mapped protocol that has resolved was
\* resolved with a response that covers the field it asked for, not with the
\* response to a superseded command or to another address.
C26_ResolvedByOwnResponse ==
  \A p \in UserPids :
    (vendor = "Qsense" /\ proc[p].kind = "getValue" /\ proc[p].pc = "resolved")
    => proc[p].arg \in proc[p].val

\* C27: a getValue(property) of the ASCII protocol that has completed was
\* completed by a property line whose keys include the requested property.
C27_CompletedByPropertyLine ==
  \A p \in UserPids :
    (vendor = "Yost" /\ proc[p].kind = "getValue" /\ proc[p].pc = "resolved")
    => PropertyChars(proc[p].arg) \in proc[p].val

\* C28: once a stopStreaming() call has completed and no startStreaming()
\* call has been made after it, streaming is false.
C28_StoppedStaysStopped ==
  \A q \in UserPids :
    ( /\ proc[q].kind = "stopStreaming"
      /\ proc[q].pc = "resolved"
      /\ ~\E r \in UserPids : r > q /\ proc[r].kind = "startStreaming" )
    => ~streaming

\* C29: a notification on a family-2 session invokes the sink at most once.
C29_OneSinkCallPerNotification ==
  [][vendor = "Qsense" => Len(sink') <= Len(sink) + 1]_vars

\* C30: on a link that stays up, with every write acknowledged and stream
\* frames arriving again and again from before the call on, a startStreaming()
\* call eventually resolves and streaming eventually becomes true.
C30_StartEventuallyResolves ==
  \A p \in UserPids :
    []((proc[p].kind = "startStreaming" /\ proc[p].pc \in {"writing", "waiting"})
         => <>(proc[p].pc = "resolved" /\ streaming))

\* A frame the session cannot decode: a family-1 value shorter than its count
\* byte requires, a family-2 packet that is neither a control-memory nor a
\* stream-memory packet.
Malformed(v, f) ==
  \/ /\ v = "Noraxon" /\ f \in NoraxonFrames
     /\ ~f.null
     /\ (f.byteLength < 5 \/ f.byteLength < 5 + f.nFrames * frameSize)
  \/ /\ v = "Qsense" /\ f \in QsenseFrames
     /\ f.address + f.length > CONTROL_MEMORY_SIZE
     /\ ~(f.address = STREAM_MEMORY_ADDRESS /\ f.length = STREAM_MEMORY_SIZE)

\* C31: the notification of a malformed or unrecognised frame does not invoke
\* the sink and leaves connected, streaming, streamStarting and the pending
\* command slot as they were; the session keeps receiving (link, listeners
\* and notifications are as before), so later valid frames are delivered.
C31_MalformedFrameDropped ==
  [][\A f \in NoraxonFrames \cup QsenseFrames :
       (Malformed(vendor, f) /\ Notify(vendor, f))
       => /\ sink' = sink
          /\ connected' = connected
          /\ streaming' = streaming
          /\ streamStarting' = streamStarting
          /\ command' = command
          /\ link' = link /\ listeners' = listeners /\ notifying' = notifying]_vars

\* C32: when handling a complete line of a chunk throws, the lines after it
\* are still handled, in order (every sample line whose handling does not
\* throw reaches the sink), and the partial last segment is held over.
C32_ThrowDoesNotStopTheChunk ==
  rx.pc = "handled"
  => /\ rx.trace = rx.lines
     /\ Len(sink) = Cardinality({i \in DOMAIN rx.lines :
                                   rx.lines[i] # OkLine /\ i \notin rx.throws})
     /\ buffer = rx.tail

C32_Witness ==
  /\ rx.pc = "handled"
  /\ rx.throws = {1}
  /\ rx.lines = <<ShortPacketLine, <<"7">> \o ShortPacketLine>>
  /\ rx.tail # <<>>
  /\ Len(sink) = 1
  /\ proc[1].kind = "startStreaming" /\ proc[1].pc = "resolved"

\* The one message of this notification is a status response.
StatusLineArrives(f) ==
  /\ vendor = "Yost"
  /\ LET messages == Messages(buffer, f)
     IN Len(messages) = 1 /\ MatchesResponse(messages[1])
  /\ Notify("Yost", f)

\* The error code of that status response.
StatusCode(f) == ParseInt(SplitChar(Messages(buffer, f)[1], ",", <<>>)[1], 0)

\* C33: a status-response line with a nonzero error code rejects the pending
\* command with the message the error-code table has for the code, one with
\* error code zero resolves it (the call resolves or goes on to its next
\* step), and in both cases connected, streaming and streamStarting are as
\* before.
C33_StatusLineSettlesCommandOnly ==
  [][\A f \in YostChunks :
       StatusLineArrives(f)
       => /\ connected' = connected
          /\ streaming' = streaming
          /\ streamStarting' = streamStarting
          /\ \A c \in Pids :
               (command = c /\ proc[c].pc = "waiting")
               => IF StatusCode(f) # 0
                  THEN /\ proc'[c].pc = "rejected"
                       /\ StatusCode(f) = 1 => proc'[c].res = "Generic Error"
                       /\ StatusCode(f) = 2 => proc'[c].res = "Invalid Key/Readonly"
                       /\ StatusCode(f) = 3 => proc'[c].res = "Invalid Value"
                  ELSE /\ proc'[c].pc # "rejected"
                       /\ proc'[c].pc = "resolved" \/ proc'[c].ip > proc[c].ip]_vars

\* The samples the sink has been handed.
RECURSIVE SampleCount(_)
SampleCount(s) == IF s = <<>> THEN 0 ELSE Head(s) + SampleCount(Tail(s))

\* C34: the notification of a family-2 stream frame whose mode nibble is not
\* one of the modes 0..4 does not invoke the sink and adds no sample.
C34_UnknownModeDropped ==
  [][\A f \in QsenseFrames :
       ( /\ vendor = "Qsense"
         /\ f.address = STREAM_MEMORY_ADDRESS /\ f.length = STREAM_MEMORY_SIZE
         /\ f.mode \notin 0..4
         /\ Notify("Qsense", f) )
       => (sink' = sink /\ SampleCount(sink') = SampleCount(sink))]_vars

\* C35: when the overall timeout fires after the promise of the connect call
\* has been resolved, the promise stays resolved, the call is not rejected
\* and the link is as before; when it fires before any success, the promise
\* is rejected and the link is dropped in that step, and the call is rejected
\* in the end.
C35_TimeoutAfterSuccessIsIdle ==
  /\ [][(conn.timer = "armed" /\ conn'.timer = "fired")
          => /\ conn.promise = "resolved"
                => /\ conn'.promise = "resolved"
                   /\ conn'.call = conn.call
                   /\ conn'.gatt = conn.gatt
                   /\ conn'.pc = conn.pc
             /\ conn.promise = "pending"
                => /\ conn'.promise = "rejected"
                   /\ conn'.reason = "timeout"
                   /\ ~conn'.gatt]_vars
  /\ [](conn.promise = "resolved" => [](conn.call # "rejected"))
  /\ []((conn.timer = "fired" /\ conn.promise = "rejected") => <>(conn.call = "rejected"))

C35_Witness ==
  /\ conn.timer = "fired"
  /\ conn.call = "resolved"
  /\ conn.gatt

\* C36: in every state in which connected is true, the serial and the version
\* of the session are both defined.
C36_ConnectedImpliesIdentified ==
  connected => (serial # "undefined" /\ version # "undefined")

\* C37: in each of the five modes every byte read as sample data follows the
\* 10-byte stream header: no byte at an offset below 10 is read as data.
C37_SamplesFollowHeader ==
  (rx.pc = "parsed" /\ rx.first % 16 \in 0..4)
  => \A k \in rx.out.bytes : k >= 10

\* C38: for every first header byte, decoding a 237-byte payload raises no
\* error and reads no byte outside the 237 bytes.
C38_DecodeStaysInPayload ==
  rx.pc = "parsed"
  => (~rx.out.threw /\ \A k \in rx.out.bytes : k \in 0..236)

\* C39: the accelerometer and gyroscope range indexes are 2-bit fields
\* (0..3), and each selects an entry its scale-factor table has.
C39_RangeIndexSelectsEntry ==
  rx.pc = "parsed"
  => /\ rx.out.accRangeIndex \in 0..3
     /\ rx.out.gyroRangeIndex \in 0..3
     /\ rx.out.accScale # Undefined
     /\ rx.out.gyrScale # Undefined

\* C40: a family-1 value with count byte N is decoded exactly when it holds
\* at least 5 + 20 * N bytes (4-byte timestamp, count byte, N sub-frames of
\* 20 bytes); a shorter value is dropped.
C40_DecodedIffLongEnough ==
  rx.pc = "parsed"
  => (rx.out.returned = "frames" <=> rx.value.byteLength >= 5 + 20 * rx.value.nFrames)

====
